---- MODULE Spec2Model ----
(***************************************************************************)
(* Identity-anchored append-only lineage store with structural three-way   *)
(* merge analysis (appendix A1_identity_formalization).                    *)
(*                                                                         *)
(* A Python str is a sequence of one-character strings, so that escaping   *)
(* and code-point ordering are computed and not assumed.                   *)
(***************************************************************************)
EXTENDS Integers, Sequences, FiniteSets, TLC

(***************************************************************************)
(* Structured values (the payload language of canonicalization.py)         *)
(***************************************************************************)
PyNone == [t |-> "null"]
PyBool(b) == [t |-> "bool", b |-> b]
PyInt(i) == [t |-> "int", i |-> i]
PyStr(s) == [t |-> "str", s |-> s]
\* the float of integral value i (i.0)
PyFloat(i) == [t |-> "float", i |-> i]
PyBytes(s) == [t |-> "bytes", s |-> s]
PyList(xs) == [t |-> "list", xs |-> xs]
\* a dict: <<key, value>> pairs in insertion order, keys pairwise distinct
PyDict(items) == [t |-> "map", items |-> items]
\* a set or frozenset: its elements in iteration order, pairwise distinct
PySet(xs) == [t |-> "set", xs |-> xs]
PyTuple(xs) == [t |-> "pytuple", xs |-> xs]

\* the characters of the model, in code-point order
Alphabet ==
    << " ", "\"", ",", "-", ".", "0", "1", "2", "3", "4", "5", "6", "7", "8", "9",
       ":", "<", ">", "Q", "[", "\\", "]", "_", "a", "b", "c", "d", "e", "f", "g", "h",
       "i", "j", "k", "l", "m", "n", "o", "p", "q", "r", "s", "t", "u", "v",
       "w", "x", "y", "z", "{", "}" >>

Ord(c) == CHOOSE i \in 1..Len(Alphabet) : Alphabet[i] = c

\* Python's str.__lt__: lexicographic by code point
RECURSIVE StrLess(_, _)
StrLess(a, b) ==
    IF Len(a) = 0 THEN Len(b) > 0
    ELSE IF Len(b) = 0 THEN FALSE
    ELSE IF Head(a) = Head(b) THEN StrLess(Tail(a), Tail(b))
    ELSE Ord(Head(a)) < Ord(Head(b))

RECURSIVE Concat(_)
Concat(ss) == IF Len(ss) = 0 THEN <<>> ELSE Head(ss) \o Concat(Tail(ss))

RECURSIVE Join(_, _)
Join(ss, sep) ==
    IF Len(ss) = 0 THEN <<>>
    ELSE IF Len(ss) = 1 THEN Head(ss)
    ELSE Head(ss) \o sep \o Join(Tail(ss), sep)

Digit(d) == Alphabet[Ord("0") + d]

RECURSIVE NatChars(_)
NatChars(n) == IF n < 10 THEN <<Digit(n)>> ELSE NatChars(n \div 10) \o <<Digit(n % 10)>>

\* int.__repr__, as json.dumps writes an int
IntChars(i) == IF i < 0 THEN <<"-">> \o NatChars(-i) ELSE NatChars(i)

\* json.dumps of a str with ensure_ascii=False: quotes, and a backslash before
\* each quote and backslash (the alphabet holds no control characters)
RECURSIVE Escape(_)
Escape(s) ==
    IF Len(s) = 0 THEN <<>>
    ELSE (IF Head(s) \in {"\"", "\\"} THEN <<"\\", Head(s)>> ELSE <<Head(s)>>)
         \o Escape(Tail(s))

Quote(s) == <<"\"">> \o Escape(s) \o <<"\"">>

CanonicalizationError == [t |-> "error", e |-> "CanonicalizationError"]

_is_primitive(x) == x.t \in {"null", "bool", "int", "float", "str"}

\* ints and bools are kept as they are; float(f"{x:.17g}") reads back the
\* float it was given (17 significant digits round-trip a double)
_normalize_number(x) == x

\* list.sort() of Python strs: insertion of s into the sorted sequence ss
RECURSIVE InsertSorted(_, _)
InsertSorted(s, ss) ==
    IF Len(ss) = 0 THEN <<s>>
    ELSE IF StrLess(s, Head(ss)) THEN <<s>> \o ss
    ELSE <<Head(ss)>> \o InsertSorted(s, Tail(ss))

\* A faulty sort: the strings are left in the order given.
SortStrs_Unsorted(ss) == ss

RECURSIVE SortStrs(_)
SortStrs(ss) == IF Len(ss) = 0 THEN <<>> ELSE InsertSorted(Head(ss), SortStrs(Tail(ss)))

RECURSIVE canonicalize_payload(_)
RECURSIVE _normalize(_)
_normalize(obj) ==
    IF _is_primitive(obj) THEN _normalize_number(obj)
    ELSE IF obj.t = "map" THEN
        LET n == Len(obj.items)
            vals == [i \in 1..n |-> _normalize(obj.items[i][2])]
        IN  IF \E i \in 1..n : obj.items[i][1].t # "str" \/ vals[i] = CanonicalizationError
            THEN CanonicalizationError
            ELSE PyDict([i \in 1..n |-> <<obj.items[i][1], vals[i]>>])
    ELSE IF obj.t = "list" THEN
        LET n == Len(obj.xs)
            vals == [i \in 1..n |-> _normalize(obj.xs[i])]
        IN  IF \E i \in 1..n : vals[i] = CanonicalizationError
            THEN CanonicalizationError
            ELSE PyList(vals)
    ELSE IF obj.t = "set" THEN
        LET n == Len(obj.xs)
            items == [i \in 1..n |-> _normalize(obj.xs[i])]
        IN  IF \E i \in 1..n : items[i] = CanonicalizationError
            THEN CanonicalizationError
            ELSE LET sortable == [i \in 1..n |-> canonicalize_payload(items[i]).s]
                     sorted == SortStrs(sortable)
                 IN  PyList([i \in 1..n |-> PyStr(sorted[i])])
    ELSE CanonicalizationError

\* sort_keys=True: the items of a dict ordered by key
RECURSIVE SortItems(_)
SortItems(items) ==
    IF Len(items) = 0 THEN <<>>
    ELSE LET m == CHOOSE i \in 1..Len(items) :
                    \A j \in 1..Len(items) :
                        j # i => StrLess(items[i][1].s, items[j][1].s)
             rest == [k \in 1..(Len(items) - 1) |-> IF k < m THEN items[k] ELSE items[k + 1]]
         IN  <<items[m]>> \o SortItems(rest)

\* json.dumps(v, ensure_ascii=False, sort_keys=True, separators=(",", ":"))
RECURSIVE JsonDumps(_)
JsonDumps(v) ==
    CASE v.t = "null" -> <<"n", "u", "l", "l">>
      [] v.t = "bool" -> IF v.b THEN <<"t", "r", "u", "e">> ELSE <<"f", "a", "l", "s", "e">>
      [] v.t = "int" -> IntChars(v.i)
      [] v.t = "float" -> IntChars(v.i) \o <<".", "0">>
      [] v.t = "str" -> Quote(v.s)
      [] v.t \in {"list", "pytuple"} ->
            <<"[">> \o Join([i \in 1..Len(v.xs) |-> JsonDumps(v.xs[i])], <<",">>) \o <<"]">>
      [] v.t = "map" ->
            LET its == SortItems(v.items)
            IN  <<"{">>
                \o Join([i \in 1..Len(its) |->
                            Quote(its[i][1].s) \o <<":">> \o JsonDumps(its[i][2])], <<",">>)
                \o <<"}">>

\* the canonical string, or CanonicalizationError
canonicalize_payload(obj) ==
    LET normalized == _normalize(obj)
    IN  IF normalized = CanonicalizationError THEN CanonicalizationError
        ELSE PyStr(JsonDumps(normalized))

(***************************************************************************)
(* State                                                                   *)
(***************************************************************************)
VARIABLES
    commits,    \* LineageStore._commits
    children,   \* LineageStore._children
    now,        \* the last reading of time.time() in ms
    last,       \* the last call: [op, args, res]
    cache,      \* canonicalize_payload and IdentityAnchor.create, tabulated
    _motif_versions,    \* PersistentStore._motif_versions
    _versions,          \* PersistentStore._versions
    _last_commit_iter,  \* CommitGate._last_commit_iter
    _states,            \* InMemoryLineageStore._states
    _heads              \* InMemoryLineageStore._heads

vars ==
    <<commits, children, now, last, cache,
      _motif_versions, _versions, _last_commit_iter, _states, _heads>>

\* the state of appendix A0 (skeleton) and of appendix A2 (calculator)
skeleton == <<_motif_versions, _versions, _last_commit_iter>>
calculator == <<_states, _heads>>

\* e evaluated once and bound to the parameter of F
With(e, F(_)) == CHOOSE r \in {F(x) : x \in {e}} : TRUE

(***************************************************************************)
(* Payloads and identity metadata the callers of the model supply          *)
(***************************************************************************)
KeyA == PyStr(<<"a">>)
KeyB == PyStr(<<"b">>)
P0 == PyDict(<< <<KeyA, PyInt(0)>>, <<KeyB, PyList(<<PyStr(<<"x">>)>>)>> >>)
\* P0 with its keys inserted in the other order
P0r == PyDict(<< <<KeyB, PyList(<<PyStr(<<"x">>)>>)>>, <<KeyA, PyInt(0)>> >>)
P1 == PyDict(<< <<KeyA, PyInt(1)>> >>)
P2 == PyDict(<< <<KeyA, PyBool(TRUE)>> >>)
\* payloads canonicalize_payload rejects: a bytes value, a non-string key
O1 == PyDict(<< <<KeyA, PyBytes(<<"x">>)>> >>)
O2 == PyDict(<< <<PyInt(1), PyInt(1)>> >>)
EmptyDict == PyDict(<<>>)

AllPayloads == {P0, P0r, P1, P2, O1, O2, EmptyDict}

Kind == <<"k">>
Namespace == <<"n">>
Scope == <<"g">>
V1 == <<"v", "1">>

(***************************************************************************)
(* identity.py                                                             *)
(***************************************************************************)
IdentityError == [t |-> "error", e |-> "IdentityError"]

IsError(x) == x.t = "error"

\* the envelope canonical_fingerprint hashes, or the error it raises
FingerprintMaterial(kind, namespace, payload, scope, version) ==
    IF kind = <<>> \/ namespace = <<>> THEN IdentityError
    ELSE With(canonicalize_payload(payload), LAMBDA canonical :
            IF IsError(canonical) THEN canonical
            ELSE canonicalize_payload(
                   PyDict(<< <<PyStr(<<"v", "e", "r", "s", "i", "o", "n">>), PyStr(version)>>,
                             <<PyStr(<<"k", "i", "n", "d">>), PyStr(kind)>>,
                             <<PyStr(<<"n", "a", "m", "e", "s", "p", "a", "c", "e">>),
                               PyStr(namespace)>>,
                             <<PyStr(<<"s", "c", "o", "p", "e">>), PyStr(scope)>>,
                             <<PyStr(<<"p", "a", "y", "l", "o", "a", "d">>), canonical>> >>)))

RECURSIVE SetToSeq(_)
SetToSeq(S) == IF S = {} THEN <<>> ELSE LET x == CHOOSE y \in S : TRUE IN <<x>> \o SetToSeq(S \ {x})

\* the envelopes of the model's payloads under the model's metadata
HashPreimages ==
    SetToSeq({m.s : m \in {x \in {FingerprintMaterial(Kind, Namespace, p, Scope, V1) :
                                    p \in AllPayloads} : ~IsError(x)}})

\* hashlib.blake2b(data, digest_size=32).hexdigest(), taken as collision-free:
\* distinct preimages get distinct digests (a listed preimage its position)
_blake2b_256(data) ==
    With(<<HashPreimages, data>>, LAMBDA hd :
        IF \E i \in 1..Len(hd[1]) : hd[1][i] = hd[2]
        THEN <<"h">> \o NatChars(CHOOSE i \in 1..Len(hd[1]) : hd[1][i] = hd[2])
        ELSE <<"h", ":">> \o hd[2])

\* PyStr(hex digest), or the error raised
canonical_fingerprint(kind, namespace, payload, scope, version) ==
    With(FingerprintMaterial(kind, namespace, payload, scope, version), LAMBDA outer :
        IF IsError(outer) THEN outer ELSE PyStr(_blake2b_256(outer.s)))

\* IdentityAnchor.create: the anchor, or the error raised
IdentityAnchorCreate(kind, namespace, payload, scope, version) ==
    With(canonical_fingerprint(kind, namespace, payload, scope, version), LAMBDA fp :
        IF IsError(fp) THEN fp
        ELSE [t |-> "anchor", id |-> fp.s, kind |-> kind, namespace |-> namespace,
              scope |-> scope, version |-> version])

\* both are pure: the tables hold their results over the model's payloads
CacheInit ==
    [canonical |-> [p \in AllPayloads |-> canonicalize_payload(p)],
     anchor |-> [x \in {Namespace, <<>>} \X AllPayloads |->
                    IdentityAnchorCreate(Kind, x[1], x[2], Scope, V1)]]

Canonical(obj) ==
    IF obj \in DOMAIN cache.canonical THEN cache.canonical[obj] ELSE canonicalize_payload(obj)

Anchor(kind, namespace, payload, scope, version) ==
    IF <<kind, scope, version>> = <<Kind, Scope, V1>>
       /\ <<namespace, payload>> \in DOMAIN cache.anchor
    THEN cache.anchor[<<namespace, payload>>]
    ELSE IdentityAnchorCreate(kind, namespace, payload, scope, version)

\* the subjects of the model: the anchors of P0, P1 and P2
SubjA == cache.anchor[<<Namespace, P0>>].id
SubjB == cache.anchor[<<Namespace, P1>>].id
SubjC == cache.anchor[<<Namespace, P2>>].id

(***************************************************************************)
(* lineage_store.py                                                        *)
(*                                                                         *)
(* A commit id (uuid4().hex) is a positive integer: its rank in the string *)
(* order of the ids.  A store value is [commits, children], the two dicts  *)
(* of LineageStore.                                                        *)
(***************************************************************************)
LineageError == [t |-> "error", e |-> "LineageError"]

Commit(commit_id, timestamp_ms, parents, op, subject_id, subject_kind, subject_namespace, subject_scope, payload, note) ==
    [t |-> "commit", commit_id |-> commit_id, timestamp_ms |-> timestamp_ms,
     parents |-> parents, op |-> op, subject_id |-> subject_id,
     subject_kind |-> subject_kind, subject_namespace |-> subject_namespace,
     subject_scope |-> subject_scope, payload |-> payload, note |-> note]

EmptyStore == [commits |-> <<>>, children |-> <<>>]

Range(f) == {f[i] : i \in DOMAIN f}

\* dict(payload or {})
PayloadOrEmpty(payload) ==
    IF payload = PyNone \/ payload = EmptyDict THEN EmptyDict ELSE payload

\* A faulty append: it restamps the parents of the commit it stores.
StoreAppend_RestampParents(st, commit_id, ts, parents, op, subject_id, subject_kind, subject_namespace, subject_scope, payload, note) ==
    IF \E i \in 1..Len(parents) : parents[i] \notin DOMAIN st.commits
    THEN [st |-> st, res |-> LineageError]
    ELSE LET c == Commit(commit_id, ts, parents, op, subject_id, subject_kind,
                         subject_namespace, subject_scope, PayloadOrEmpty(payload), note)
         IN  [st |-> [commits |-> [x \in DOMAIN st.commits \cup {commit_id} |->
                                      IF x = commit_id THEN c
                                      ELSE IF x \in Range(parents)
                                           THEN [st.commits[x] EXCEPT !.timestamp_ms = ts + 1]
                                           ELSE st.commits[x]],
                      children |-> [x \in DOMAIN st.children \cup {commit_id} |->
                                      IF x = commit_id THEN {}
                                      ELSE st.children[x] \cup
                                           (IF x \in Range(parents) THEN {commit_id} ELSE {})]],
              res |-> c]

\* A faulty append: it links the child edges parent by parent as it checks them,
\* so a failure leaves the edges of the parents that exist.
StoreAppend_LinkWhileChecking(st, commit_id, ts, parents, op, subject_id, subject_kind, subject_namespace, subject_scope, payload, note) ==
    LET c == Commit(commit_id, ts, parents, op, subject_id, subject_kind,
                    subject_namespace, subject_scope, PayloadOrEmpty(payload), note)
        linked == [x \in DOMAIN st.children |->
                      st.children[x] \cup (IF x \in Range(parents) THEN {commit_id} ELSE {})]
    IN  IF \E i \in 1..Len(parents) : parents[i] \notin DOMAIN st.commits
        THEN [st |-> [commits |-> st.commits, children |-> linked], res |-> LineageError]
        ELSE [st |-> [commits |-> [x \in DOMAIN st.commits \cup {commit_id} |->
                                      IF x = commit_id THEN c ELSE st.commits[x]],
                      children |-> [x \in DOMAIN linked \cup {commit_id} |->
                                      IF x \in DOMAIN linked THEN linked[x] ELSE {}]],
              res |-> c]

\* A faulty append: it stores the commit without looking its parents up.
StoreAppend_NoParentCheck(st, commit_id, ts, parents, op, subject_id, subject_kind, subject_namespace, subject_scope, payload, note) ==
    LET c == Commit(commit_id, ts, parents, op, subject_id, subject_kind,
                    subject_namespace, subject_scope, PayloadOrEmpty(payload), note)
    IN  [st |-> [commits |-> [x \in DOMAIN st.commits \cup {commit_id} |->
                                 IF x = commit_id THEN c ELSE st.commits[x]],
                 children |-> [x \in DOMAIN st.children \cup Range(parents) \cup {commit_id} |->
                                 (IF x \in DOMAIN st.children THEN st.children[x] ELSE {})
                                 \cup (IF x \in Range(parents) THEN {commit_id} ELSE {})]],
         res |-> c]

\* A faulty append: it links the child edge from the first parent only.
StoreAppend_LinkFirstParent(st, commit_id, ts, parents, op, subject_id, subject_kind, subject_namespace, subject_scope, payload, note) ==
    IF \E i \in 1..Len(parents) : parents[i] \notin DOMAIN st.commits
    THEN [st |-> st, res |-> LineageError]
    ELSE LET c == Commit(commit_id, ts, parents, op, subject_id, subject_kind,
                         subject_namespace, subject_scope, PayloadOrEmpty(payload), note)
             first == IF Len(parents) = 0 THEN {} ELSE {parents[1]}
         IN  [st |-> [commits |-> [x \in DOMAIN st.commits \cup {commit_id} |->
                                      IF x = commit_id THEN c ELSE st.commits[x]],
                      children |-> [x \in DOMAIN st.children \cup {commit_id} |->
                                      IF x = commit_id THEN {}
                                      ELSE st.children[x] \cup
                                           (IF x \in first THEN {commit_id} ELSE {})]],
              res |-> c]

\* LineageStore.append given the uuid and the clock reading it draws: the store
\* afterwards and the commit returned, or the error raised
StoreAppend(st, commit_id, ts, parents, op, subject_id, subject_kind, subject_namespace, subject_scope, payload, note) ==
    IF \E i \in 1..Len(parents) : parents[i] \notin DOMAIN st.commits
    THEN [st |-> st, res |-> LineageError]
    ELSE LET c == Commit(commit_id, ts, parents, op, subject_id, subject_kind,
                         subject_namespace, subject_scope, PayloadOrEmpty(payload), note)
             commits1 == [x \in DOMAIN st.commits \cup {commit_id} |->
                             IF x = commit_id THEN c ELSE st.commits[x]]
             \* for p in parent_ids: self._children.setdefault(p, set()).add(commit_id)
             children1 == [x \in DOMAIN st.children \cup Range(parents) |->
                             (IF x \in DOMAIN st.children THEN st.children[x] ELSE {})
                             \cup (IF x \in Range(parents) THEN {commit_id} ELSE {})]
             \* self._children.setdefault(commit_id, set())
             children2 == [x \in DOMAIN children1 \cup {commit_id} |->
                             IF x \in DOMAIN children1 THEN children1[x] ELSE {}]
         IN  [st |-> [commits |-> commits1, children |-> children2], res |-> c]

\* A faulty get: None for an id that is not in the store (dict.get).
StoreGet_NoneOnUnknown(st, commit_id) ==
    IF commit_id \notin DOMAIN st.commits THEN PyNone ELSE st.commits[commit_id]

StoreGet(st, commit_id) ==
    IF commit_id \notin DOMAIN st.commits THEN LineageError ELSE st.commits[commit_id]

StoreExists(st, commit_id) == commit_id \in DOMAIN st.commits

\* the key (timestamp_ms, commit_id) of all_commits and _pick_base, compared
\* as Python compares tuples
KeyLess(k1, k2) == k1[1] < k2[1] \/ (k1[1] = k2[1] /\ k1[2] < k2[2])

\* A faulty key: the id alone.
CommitKey_IdOnly(c) == <<0, c.commit_id>>

CommitKey(c) == <<c.timestamp_ms, c.commit_id>>

\* sorted(values, key=...): stable, so equal keys would keep their order
RECURSIVE SortedByKey(_)
SortedByKey(cs) ==
    IF cs = {} THEN <<>>
    ELSE LET m == CHOOSE c \in cs : \A d \in cs : ~KeyLess(CommitKey(d), CommitKey(c))
         IN  <<m>> \o SortedByKey(cs \ {m})

StoreAllCommits(st) == SortedByKey(Range(st.commits))

StoreChildrenOf(st, commit_id) ==
    IF commit_id \notin DOMAIN st.children THEN {} ELSE st.children[commit_id]

\* A faulty visit: it follows the first parent only.
VisitParents_FirstParent(ps, stack, visited) ==
    IF Len(ps) = 0 \/ Head(ps) \in visited THEN [stack |-> stack, visited |-> visited]
    ELSE [stack |-> Append(stack, Head(ps)), visited |-> visited \cup {Head(ps)}]

\* for p in parents: if p not in visited: visited.add(p); stack.append(p)
RECURSIVE VisitParents(_, _, _)
VisitParents(ps, stack, visited) ==
    IF Len(ps) = 0 THEN [stack |-> stack, visited |-> visited]
    ELSE IF Head(ps) \notin visited
         THEN VisitParents(Tail(ps), Append(stack, Head(ps)), visited \cup {Head(ps)})
         ELSE VisitParents(Tail(ps), stack, visited)

\* while stack: cur = stack.pop(); ...
RECURSIVE AncestorsLoop(_, _, _)
AncestorsLoop(st, stack, visited) ==
    IF Len(stack) = 0 THEN visited
    ELSE LET cur == stack[Len(stack)]
             r == VisitParents(st.commits[cur].parents, SubSeq(stack, 1, Len(stack) - 1),
                               visited)
         IN  AncestorsLoop(st, r.stack, r.visited)

StoreAncestorsOf(st, commit_id) ==
    IF commit_id \notin DOMAIN st.commits THEN LineageError
    ELSE AncestorsLoop(st, <<commit_id>>, {})

\* A faulty lca_candidates: it intersects the proper ancestors, leaving the
\* two commits themselves out.
StoreLcaCandidates_NoSelf(st, a, b) ==
    IF a \notin DOMAIN st.commits \/ b \notin DOMAIN st.commits THEN LineageError
    ELSE StoreAncestorsOf(st, a) \cap StoreAncestorsOf(st, b)

StoreLcaCandidates(st, a, b) ==
    IF a \notin DOMAIN st.commits \/ b \notin DOMAIN st.commits THEN LineageError
    ELSE (StoreAncestorsOf(st, a) \cup {a}) \cap (StoreAncestorsOf(st, b) \cup {b})

(***************************************************************************)
(* merge_engine.py                                                         *)
(***************************************************************************)
MergeError == [t |-> "error", e |-> "MergeError"]

AssertionError == [t |-> "error", e |-> "AssertionError"]

\* Optional[str] None, where a commit id is expected
NoCommit == 0

\* A faulty index: each subject's first commit in the sequence.
_index_latest_by_subject_First(cs) ==
    [sid \in {cs[i].subject_id : i \in 1..Len(cs)} |->
        cs[CHOOSE i \in 1..Len(cs) :
                /\ cs[i].subject_id = sid
                /\ \A j \in 1..(i - 1) : cs[j].subject_id # sid]]

\* a dict subject_id -> Commit: each subject's last commit in the sequence
_index_latest_by_subject(cs) ==
    [sid \in {cs[i].subject_id : i \in 1..Len(cs)} |->
        cs[CHOOSE i \in 1..Len(cs) :
                /\ cs[i].subject_id = sid
                /\ \A j \in (i + 1)..Len(cs) : cs[j].subject_id # sid]]

\* A faulty chain walk: it follows the first parent through commits of several
\* parents and stops at a commit without parents only.
RECURSIVE ChainLoop_ThroughMerges(_, _, _)
ChainLoop_ThroughMerges(st, cur, chain) ==
    LET c == StoreGet(st, cur)
        chain1 == Append(chain, c)
    IN  IF Len(c.parents) = 0 THEN chain1
        ELSE ChainLoop_ThroughMerges(st, c.parents[1], chain1)

\* while True: c = store.get(cur); chain.append(c); if len(c.parents) != 1: break; ...
RECURSIVE ChainLoop(_, _, _)
ChainLoop(st, cur, chain) ==
    LET c == StoreGet(st, cur)
        chain1 == Append(chain, c)
    IN  IF Len(c.parents) # 1 THEN chain1 ELSE ChainLoop(st, c.parents[1], chain1)

Reverse(s) == [i \in 1..Len(s) |-> s[Len(s) + 1 - i]]

\* A faulty chain walk: it stops at the head.
_commit_chain_HeadOnly(st, head) == <<StoreGet(st, head)>>

_commit_chain(st, head) == Reverse(ChainLoop(st, head, <<>>))

\* the orders in which a set can be iterated
Orders(S) == {q \in [1..Cardinality(S) -> S] : \A x \in S : \E i \in DOMAIN q : q[i] = x}

\* A faulty loop: it keeps the first candidate iterated.
PickBaseLoop_KeepFirst(st, order, i, best, best_key) == order[1]

\* for cid in cands: ... if best is None or key > best_key: ...  from the i-th
\* element on; order is the order in which the set cands is iterated
RECURSIVE PickBaseLoop(_, _, _, _, _)
PickBaseLoop(st, order, i, best, best_key) ==
    IF i > Len(order) THEN best
    ELSE LET cid == order[i]
             c == StoreGet(st, cid)
             key == CommitKey(c)
         IN  IF best = NoCommit \/ KeyLess(best_key, key)
             THEN PickBaseLoop(st, order, i + 1, cid, key)
             ELSE PickBaseLoop(st, order, i + 1, best, best_key)

\* A faulty _pick_base: it takes the left head for the base.
_pick_base_LeftHead(st, left, right, order) == left

\* order: the iteration order of store.lca_candidates(left, right)
_pick_base(st, left, right, order) ==
    IF Len(order) = 0 THEN NoCommit ELSE PickBaseLoop(st, order, 1, NoCommit, <<0, 0>>)

OpaquePayload ==
    <<"<", "o", "p", "a", "q", "u", "e", "-", "p", "a", "y", "l", "o", "a", "d", ">">>

\* A faulty signature: every payload gets the same one.
_semantic_free_payload_change_Constant(commit) == OpaquePayload

_semantic_free_payload_change(commit) ==
    LET r == Canonical(commit.payload)
    IN  IF r = CanonicalizationError THEN OpaquePayload ELSE r.s

\* sorted(all_subjects)
RECURSIVE SortedStrs(_)
SortedStrs(S) ==
    IF S = {} THEN <<>>
    ELSE LET m == CHOOSE x \in S : \A y \in S : ~StrLess(y, x)
         IN  <<m>> \o SortedStrs(S \ {m})

\* The entries the loop over sorted(all_subjects) appends, each with the list
\* it is appended to, follow.

\* A faulty entry: a subject only on the left branch is proposed as accept_either.
AcceptLeftOnly_AsEither(sid, l) ==
    [to |-> "actions",
     entry |-> [subject_id |-> sid, proposal |-> "accept_either",
                reason |-> "subject appears only on left branch",
                left_commit |-> l.commit_id]]

AcceptLeftOnly(sid, l) ==
    [to |-> "actions",
     entry |-> [subject_id |-> sid, proposal |-> "accept_left",
                reason |-> "subject appears only on left branch",
                left_commit |-> l.commit_id]]

AcceptRightOnly(sid, r) ==
    [to |-> "actions",
     entry |-> [subject_id |-> sid, proposal |-> "accept_right",
                reason |-> "subject appears only on right branch",
                right_commit |-> r.commit_id]]

AcceptEither(sid, l, r) ==
    [to |-> "actions",
     entry |-> [subject_id |-> sid, proposal |-> "accept_either",
                reason |-> "structurally equivalent payload changes",
                left_commit |-> l.commit_id, right_commit |-> r.commit_id]]

AcceptRightOverBase(sid, b, r) ==
    [to |-> "actions",
     entry |-> [subject_id |-> sid, proposal |-> "accept_right",
                reason |-> "left matches base; right diverges",
                base_commit |-> b.commit_id, right_commit |-> r.commit_id]]

\* A faulty entry: with the right side matching base, the left side's change
\* is recorded as a conflict.
AcceptLeftOverBase_AsConflict(sid, b, l) ==
    [to |-> "conflicts",
     entry |-> [subject_id |-> sid, conflict |-> "divergent_updates",
                reason |-> "right matches base; left diverges",
                base_commit |-> b.commit_id, left_commit |-> l.commit_id]]

AcceptLeftOverBase(sid, b, l) ==
    [to |-> "actions",
     entry |-> [subject_id |-> sid, proposal |-> "accept_left",
                reason |-> "right matches base; left diverges",
                base_commit |-> b.commit_id, left_commit |-> l.commit_id]]

\* base_id: b.commit_id if b else None
DivergentUpdates(sid, base_id, l, r, l_sig, r_sig) ==
    [to |-> "conflicts",
     entry |-> [subject_id |-> sid, conflict |-> "divergent_updates",
                reason |-> "both branches diverged for same subject_id; requires explicit merge policy",
                base_commit |-> base_id,
                left_commit |-> l.commit_id, right_commit |-> r.commit_id,
                left_payload_sig |-> l_sig, right_payload_sig |-> r_sig]]

\* one pass of the loop over sorted(all_subjects): the entry appended and the
\* list it is appended to, or the error raised
ClassifySubject(sid, left_latest, right_latest, base_latest) ==
    LET hasL == sid \in DOMAIN left_latest
        hasR == sid \in DOMAIN right_latest
        hasB == sid \in DOMAIN base_latest
    IN  IF hasL /\ ~hasR THEN AcceptLeftOnly(sid, left_latest[sid])
        ELSE IF hasR /\ ~hasL THEN AcceptRightOnly(sid, right_latest[sid])
        ELSE IF ~hasL /\ ~hasR THEN
            \* assert l and r  (without the assert, None.payload raises next)
            [to |-> "raise", entry |-> AssertionError]
        ELSE
            LET l == left_latest[sid]
                r == right_latest[sid]
                l_sig == _semantic_free_payload_change(l)
                r_sig == _semantic_free_payload_change(r)
                b_sig == _semantic_free_payload_change(base_latest[sid])
            IN  IF l_sig = r_sig THEN AcceptEither(sid, l, r)
                ELSE IF hasB /\ l_sig = b_sig /\ r_sig # b_sig
                     THEN AcceptRightOverBase(sid, base_latest[sid], r)
                ELSE IF hasB /\ r_sig = b_sig /\ l_sig # b_sig
                     THEN AcceptLeftOverBase(sid, base_latest[sid], l)
                ELSE DivergentUpdates(sid,
                                      IF hasB THEN base_latest[sid].commit_id ELSE NoCommit,
                                      l, r, l_sig, r_sig)

\* a reason string returned by detect_identity_collision
Reason(r) == [t |-> "reason", r |-> r]

\* A faulty detection: it never looks at the observed payload.
detect_identity_collision_ExpectedOnly(anchor, expected_payload, observed_payload) ==
    With(IdentityAnchorCreate(anchor.kind, anchor.namespace, expected_payload, anchor.scope,
                              anchor.version), LAMBDA expected :
        IF expected = IdentityError THEN Reason("cannot reconstruct expected anchor")
        ELSE IF IsError(expected) THEN expected
        ELSE IF expected.id # anchor.id THEN Reason("anchor mismatch")
        ELSE PyNone)

\* detect_identity_collision: None, the reason returned, or the error that
\* escapes (it catches IdentityError only)
detect_identity_collision(anchor, expected_payload, observed_payload) ==
    With(IdentityAnchorCreate(anchor.kind, anchor.namespace, expected_payload, anchor.scope,
                              anchor.version), LAMBDA expected :
        IF expected = IdentityError THEN Reason("cannot reconstruct expected anchor")
        ELSE IF IsError(expected) THEN expected
        ELSE IF expected.id # anchor.id THEN Reason("anchor mismatch")
        ELSE With(IdentityAnchorCreate(anchor.kind, anchor.namespace, observed_payload,
                                       anchor.scope, anchor.version), LAMBDA observed :
                IF observed = IdentityError THEN Reason("cannot reconstruct observed anchor")
                ELSE IF IsError(observed) THEN observed
                ELSE IF observed.id # anchor.id THEN Reason("identity collision")
                ELSE PyNone))

\* the MergeDecision, or the error raised; order is the iteration order of the
\* candidate set in _pick_base
three_way_merge_analysis(st, left_head, right_head, order) ==
    IF ~StoreExists(st, left_head) \/ ~StoreExists(st, right_head) THEN MergeError
    ELSE
        LET base == _pick_base(st, left_head, right_head, order)
            left_latest == _index_latest_by_subject(_commit_chain(st, left_head))
            right_latest == _index_latest_by_subject(_commit_chain(st, right_head))
            base_latest == IF base # NoCommit
                           THEN _index_latest_by_subject(_commit_chain(st, base))
                           ELSE <<>>
            all_subjects == DOMAIN left_latest \cup DOMAIN right_latest \cup DOMAIN base_latest
            sids == SortedStrs(all_subjects)
            passes == [i \in 1..Len(sids) |->
                          ClassifySubject(sids[i], left_latest, right_latest, base_latest)]
            actions == SelectSeq(passes, LAMBDA x : x.to = "actions")
            conflicts == SelectSeq(passes, LAMBDA x : x.to = "conflicts")
        IN  IF \E i \in 1..Len(passes) : passes[i].to = "raise" THEN AssertionError
            ELSE
            [t |-> "decision", base_commit |-> base, left_commit |-> left_head,
             right_commit |-> right_head,
             actions |-> [i \in 1..Len(actions) |-> actions[i].entry],
             conflicts |-> [i \in 1..Len(conflicts) |-> conflicts[i].entry]]

\* A faulty loop: it writes the merge commits into the commits dict itself,
\* without LineageStore.append, so no child edge is linked.
RECURSIVE CommitMergeLoop_DirectWrite(_, _, _, _, _, _, _, _, _, _, _, _)
CommitMergeLoop_DirectWrite(st, left, right, items, i, ids, tss, kind, namespace, scope, note, out) ==
    IF i > Len(items) THEN [st |-> st, res |-> PyList(out)]
    ELSE LET subject_id == items[i][1]
             payload == items[i][2]
             anchor == Anchor(kind, namespace, payload, scope, V1)
         IN  IF IsError(anchor) THEN [st |-> st, res |-> anchor]
             ELSE LET same == anchor.id = subject_id
                      c == Commit(ids[i], tss[i], <<left, right>>,
                                  IF same THEN "merge" ELSE "replace",
                                  IF same THEN subject_id ELSE anchor.id,
                                  kind, namespace, scope, PayloadOrEmpty(payload), note)
                      st1 == [commits |-> [x \in DOMAIN st.commits \cup {ids[i]} |->
                                              IF x = ids[i] THEN c ELSE st.commits[x]],
                              children |-> st.children]
                  IN  CommitMergeLoop_DirectWrite(st1, left, right, items, i + 1, ids, tss,
                                                  kind, namespace, scope, note, Append(out, c))

\* A faulty loop: it appends every resolved payload as a merge under the
\* subject id it was given, whatever the anchor of the payload is.
RECURSIVE CommitMergeLoop_AlwaysMerge(_, _, _, _, _, _, _, _, _, _, _, _)
CommitMergeLoop_AlwaysMerge(st, left, right, items, i, ids, tss, kind, namespace, scope, note, out) ==
    IF i > Len(items) THEN [st |-> st, res |-> PyList(out)]
    ELSE LET subject_id == items[i][1]
             payload == items[i][2]
             anchor == Anchor(kind, namespace, payload, scope, V1)
         IN  IF IsError(anchor) THEN [st |-> st, res |-> anchor]
             ELSE LET a == StoreAppend(st, ids[i], tss[i], <<left, right>>, "merge",
                                       subject_id, kind, namespace, scope, payload, note)
                  IN  CommitMergeLoop_AlwaysMerge(a.st, left, right, items, i + 1, ids, tss,
                                                  kind, namespace, scope, note,
                                                  Append(out, a.res))

\* the loop of commit_merge over merged_subject_payloads.items(), from item i on;
\* ids and tss are the uuids and clock readings the appends draw.  The store
\* afterwards, and the commits returned or the error raised.
RECURSIVE CommitMergeLoop(_, _, _, _, _, _, _, _, _, _, _, _)
CommitMergeLoop(st, left, right, items, i, ids, tss, kind, namespace, scope, note, out) ==
    IF i > Len(items) THEN [st |-> st, res |-> PyList(out)]
    ELSE LET subject_id == items[i][1]
             payload == items[i][2]
             anchor == Anchor(kind, namespace, payload, scope, V1)
         IN  IF IsError(anchor) THEN [st |-> st, res |-> anchor]
             ELSE LET same == anchor.id = subject_id
                      a == StoreAppend(st, ids[i], tss[i], <<left, right>>,
                                       IF same THEN "merge" ELSE "replace",
                                       IF same THEN subject_id ELSE anchor.id,
                                       kind, namespace, scope, payload, note)
                  IN  CommitMergeLoop(a.st, left, right, items, i + 1, ids, tss, kind,
                                      namespace, scope, note, Append(out, a.res))

\* A faulty commit_merge: it computes the anchors of the resolved payloads
\* before it looks the parents up.
commit_merge_AnchorsFirst(st, left, right, items, ids, tss, kind, namespace, scope, note) ==
    LET bad == {i \in 1..Len(items) : IsError(Anchor(kind, namespace, items[i][2], scope, V1))}
    IN  IF bad # {}
        THEN [st |-> st,
              res |-> Anchor(kind, namespace, items[CHOOSE i \in bad : TRUE][2], scope, V1)]
        ELSE IF ~StoreExists(st, left) \/ ~StoreExists(st, right)
             THEN [st |-> st, res |-> MergeError]
             ELSE CommitMergeLoop(st, left, right, items, 1, ids, tss, kind, namespace,
                                  scope, note, <<>>)

\* commit_merge (its decision argument is never read)
commit_merge(st, left, right, items, ids, tss, kind, namespace, scope, note) ==
    IF ~StoreExists(st, left) \/ ~StoreExists(st, right) THEN [st |-> st, res |-> MergeError]
    ELSE CommitMergeLoop(st, left, right, items, 1, ids, tss, kind, namespace, scope, note,
                         <<>>)

(***************************************************************************)
(* The store as a state machine: one action per operation                  *)
(***************************************************************************)
Store == [commits |-> commits, children |-> children]

MaxCommits == 3
MaxTime == 1
MaxParents == 2
MergeMaxCommits == 3
MergeMaxTime == 0
GraphMaxCommits == 4

\* sequences over S of length n
RECURSIVE Tuples(_, _)
Tuples(S, n) ==
    IF n = 0 THEN {<<>>}
    ELSE UNION {{<<x>> \o q : q \in Tuples(S, n - 1)} : x \in S}

\* non-decreasing sequences over lo..hi, of length n
RECURSIVE ClockSeqs(_, _, _)
ClockSeqs(lo, hi, n) ==
    IF n = 0 THEN {<<>>}
    ELSE UNION {{<<x>> \o q : q \in ClockSeqs(x, hi, n - 1)} : x \in lo..hi}

\* What callers pass and what the environment returns, for the environment E:
\* "store" exercises every operation, "merge" the payloads and subjects,
\* "graph" the larger lineage graphs (diamonds).

\* the commit ids
Ids(E) ==
    IF E = "merge" THEN 1..MergeMaxCommits
    ELSE IF E = "graph" THEN 1..GraphMaxCommits
    ELSE 1..MaxCommits

\* the ids uuid4 can return next, given the ids stored: any unused one; in
\* "merge" and "graph" the unused ones in increasing order
Uuid(E, stored) ==
    IF E \in {"merge", "graph"}
    THEN {i \in Ids(E) : i \notin stored /\ \A j \in 1..(i - 1) : j \in stored}
    ELSE Ids(E) \ stored

\* the last clock reading
MaxT(E) == IF E \in {"merge", "graph"} THEN MergeMaxTime ELSE MaxTime

\* the (subject_id, payload) pairs passed to append
Inputs(E) ==
    IF E = "merge"
    THEN {<<SubjA, P0>>, <<SubjA, P0r>>, <<SubjA, P1>>, <<SubjA, O1>>, <<SubjA, O2>>,
          <<SubjB, P1>>, <<SubjC, P2>>}
    ELSE {<<SubjA, P0>>}

\* the merged_subject_payloads and namespace passed to commit_merge
Merges(E) ==
    IF E = "merge"
    THEN {[items |-> << <<SubjB, P1>> >>, namespace |-> Namespace],
          [items |-> << <<SubjB, P1>>, <<SubjC, P2>> >>, namespace |-> Namespace]}
    ELSE {[items |-> << <<SubjA, P0>>, <<SubjB, P0>> >>, namespace |-> Namespace],
          [items |-> << <<SubjA, P0>>, <<SubjB, O1>> >>, namespace |-> Namespace],
          [items |-> << <<SubjA, P0>> >>, namespace |-> Namespace],
          [items |-> << <<SubjA, P0>> >>, namespace |-> <<>>]}

Call(op, args, res) == [op |-> op, args |-> args, res |-> res]

Init ==
    /\ commits = EmptyStore.commits
    /\ children = EmptyStore.children
    /\ now = 0
    /\ last = Call("init", <<>>, PyNone)
    /\ cache = CacheInit
    /\ _motif_versions = <<>>
    /\ _versions = <<>>
    /\ _last_commit_iter = <<>>
    /\ _states = <<>>
    /\ _heads = <<>>

\* store.append(parents=..., op="add", subject_id=..., payload=...)
AppendOp(E) ==
    /\ \E n \in 0..MaxParents :
         \E parents \in Tuples(Ids(E), n), in \in Inputs(E) :
           IF \E i \in 1..n : parents[i] \notin DOMAIN commits
           THEN \E a \in {StoreAppend(Store, NoCommit, now, parents, "add", in[1], Kind,
                                      Namespace, Scope, in[2], "")} :
                  /\ commits' = a.st.commits
                  /\ children' = a.st.children
                  /\ now' = now
                  /\ last' = Call("append", <<parents, in[1], in[2]>>, a.res)
           ELSE \E cid \in Uuid(E, DOMAIN commits), ts \in now..MaxT(E) :
                \E a \in {StoreAppend(Store, cid, ts, parents, "add", in[1], Kind,
                                      Namespace, Scope, in[2], "")} :
                  /\ commits' = a.st.commits
                  /\ children' = a.st.children
                  /\ now' = ts
                  /\ last' = Call("append", <<parents, in[1], in[2]>>, a.res)
    /\ UNCHANGED <<cache, skeleton, calculator>>

GetOp(E) ==
    \E cid \in Ids(E) :
        /\ last' = Call("get", <<cid>>, StoreGet(Store, cid))
        /\ UNCHANGED <<commits, children, now, cache, skeleton, calculator>>

ExistsOp(E) ==
    \E cid \in Ids(E) :
        /\ last' = Call("exists", <<cid>>, StoreExists(Store, cid))
        /\ UNCHANGED <<commits, children, now, cache, skeleton, calculator>>

AllCommitsOp ==
    /\ last' = Call("all_commits", <<>>, StoreAllCommits(Store))
    /\ UNCHANGED <<commits, children, now, cache, skeleton, calculator>>

ChildrenOfOp(E) ==
    \E cid \in Ids(E) :
        /\ last' = Call("children_of", <<cid>>, StoreChildrenOf(Store, cid))
        /\ UNCHANGED <<commits, children, now, cache, skeleton, calculator>>

AncestorsOfOp(E) ==
    \E cid \in Ids(E) :
        /\ last' = Call("ancestors_of", <<cid>>, StoreAncestorsOf(Store, cid))
        /\ UNCHANGED <<commits, children, now, cache, skeleton, calculator>>

LcaCandidatesOp(E) ==
    \E a \in Ids(E), b \in Ids(E) :
        /\ last' = Call("lca_candidates", <<a, b>>, StoreLcaCandidates(Store, a, b))
        /\ UNCHANGED <<commits, children, now, cache, skeleton, calculator>>

\* the candidate set _pick_base iterates, empty when a head is unknown (the
\* analysis has raised before)
BaseCandidates(st, l, r) ==
    IF StoreExists(st, l) /\ StoreExists(st, r) THEN StoreLcaCandidates(st, l, r) ELSE {}

AnalysisOp(E) ==
    \E l \in Ids(E), r \in Ids(E) :
        \E order \in Orders(BaseCandidates(Store, l, r)) :
            /\ last' = Call("three_way_merge_analysis", <<l, r>>,
                            three_way_merge_analysis(Store, l, r, order))
            /\ UNCHANGED <<commits, children, now, cache, skeleton, calculator>>

\* how many items commit_merge reaches store.append for
NumAppends(st, left, right, items, namespace) ==
    IF ~StoreExists(st, left) \/ ~StoreExists(st, right) THEN 0
    ELSE LET bad == {i \in 1..Len(items) :
                        IsError(Anchor(Kind, namespace, items[i][2], Scope, V1))}
         IN  IF bad = {} THEN Len(items)
             ELSE (CHOOSE i \in bad : \A j \in bad : i <= j) - 1

\* sequences of n ids that n successive uuid4 calls can return
RECURSIVE UuidSeqs(_, _, _)
UuidSeqs(E, stored, n) ==
    IF n = 0 THEN {<<>>}
    ELSE UNION {{<<x>> \o q : q \in UuidSeqs(E, stored \cup {x}, n - 1)} :
                    x \in Uuid(E, stored)}

CommitMergeOp(E) ==
    /\ \E left \in Ids(E), right \in Ids(E), mg \in Merges(E) :
         \E k \in {NumAppends(Store, left, right, mg.items, mg.namespace)} :
           /\ Cardinality(DOMAIN commits) + k <= Cardinality(Ids(E))
           /\ \E ids \in UuidSeqs(E, DOMAIN commits, k), tss \in ClockSeqs(now, MaxT(E), k) :
                \E m \in {commit_merge(Store, left, right, mg.items, ids, tss, Kind,
                                       mg.namespace, Scope, "merge commit")} :
                  /\ commits' = m.st.commits
                  /\ children' = m.st.children
                  /\ now' = IF k = 0 THEN now ELSE tss[k]
                  /\ last' = Call("commit_merge", <<left, right, mg>>, m.res)
    /\ UNCHANGED <<cache, skeleton, calculator>>

NextOf(E) ==
    \/ AppendOp(E)
    \/ GetOp(E)
    \/ ExistsOp(E)
    \/ AllCommitsOp
    \/ ChildrenOfOp(E)
    \/ AncestorsOfOp(E)
    \/ LcaCandidatesOp(E)
    \/ AnalysisOp(E)
    \/ CommitMergeOp(E)

Next == NextOf("store")

Spec == Init /\ [][Next]_vars

\* the merge engine over stores of more subjects and payloads
NextMerge ==
    \/ AppendOp("merge")
    \/ AnalysisOp("merge")
    \/ CommitMergeOp("merge")

SpecMerge == Init /\ [][NextMerge]_vars

\* the graph queries over stores of more commits
NextGraph ==
    \/ AppendOp("graph")
    \/ ChildrenOfOp("graph")
    \/ AncestorsOfOp("graph")
    \/ LcaCandidatesOp("graph")

SpecGraph == Init /\ [][NextGraph]_vars

(***************************************************************************)
(* The pure functions of canonicalization.py and identity.py and           *)
(* detect_identity_collision, as calls on inputs drawn from bounded sets;  *)
(* last holds the call just made and, in prev, the call of the same        *)
(* function before it.                                                     *)
(***************************************************************************)
\* sets in two iteration orders, the list of the encodings of a set's
\* elements, a float, nestings of these
S12 == PySet(<<PyInt(1), PyInt(2)>>)
S21 == PySet(<<PyInt(2), PyInt(1)>>)
L12 == PyList(<<PyStr(<<"1">>), PyStr(<<"2">>)>>)
D01 == PyDict(<< <<KeyA, S12>>, <<KeyB, PyFloat(1)>> >>)
D10 == PyDict(<< <<KeyB, PyFloat(1)>>, <<KeyA, S21>> >>)
Q1 == PyDict(<< <<KeyA, S12>> >>)
Q1r == PyDict(<< <<KeyA, S21>> >>)
Q2 == PyDict(<< <<KeyA, L12>> >>)
Q3 == PyDict(<< <<KeyA, PyFloat(1)>> >>)
\* a list of a mapping and a set of a set, and the same with the inner orders changed
N1 == PyDict(<< <<KeyA, PyList(<<D01, PySet(<<S12, PyInt(0)>>)>>)>> >>)
N1r == PyDict(<< <<KeyA, PyList(<<D10, PySet(<<PyInt(0), S21>>)>>)>> >>)
\* the same with the order of the list changed
N2 == PyDict(<< <<KeyA, PyList(<<PySet(<<S12, PyInt(0)>>), D01>>)>> >>)

\* the payloads passed to IdentityAnchor.create
IdentityPayloads == {P0, P0r, P1, P2, Q1, Q1r, Q2, Q3}

\* the values passed to canonicalize_payload
CanonValues ==
    IdentityPayloads \cup {O1, N1, N1r, S12, S21, L12, D01, D10, N2, O2, EmptyDict, PyNone, PyInt(1),
                           PyFloat(1), PyBool(TRUE), PyStr(<<"1">>), PyBytes(<<"x">>)}

Kinds == {Kind, <<"m">>}
Namespaces == {Namespace, <<"o">>}
Scopes == {Scope, <<"l">>}

\* the call of the same function before this one, if it was the last call
Prev(op) ==
    IF last.op = op THEN [op |-> op, args |-> last.args, res |-> last.res]
    ELSE [op |-> "none", args |-> <<>>, res |-> PyNone]

CallAfter(op, args, res) == [op |-> op, args |-> args, res |-> res, prev |-> Prev(op)]

CanonicalizeOp ==
    /\ \E obj \in CanonValues :
          last' = CallAfter("canonicalize_payload", <<obj>>, canonicalize_payload(obj))
    /\ UNCHANGED <<commits, children, now, cache, skeleton, calculator>>

CreateOp ==
    /\ \E kind \in Kinds, namespace \in Namespaces, scope \in Scopes, payload \in IdentityPayloads :
          last' = CallAfter("create", <<kind, namespace, scope, V1, payload>>,
                            IdentityAnchorCreate(kind, namespace, payload, scope, V1))
    /\ UNCHANGED <<commits, children, now, cache, skeleton, calculator>>

\* the payloads passed to detect_identity_collision
ExpectedPayloads == {P0, P0r, P1, Q1, Q1r, O1}
ObservedPayloads == IdentityPayloads \cup {O1}

\* the anchors passed to detect_identity_collision: made by create, or built
\* by the dataclass constructor with an empty kind
DetectAnchors ==
    {IdentityAnchorCreate(Kind, Namespace, p, Scope, V1) : p \in {P0, P1, Q1}}
    \cup {[t |-> "anchor", id |-> <<"h">>, kind |-> <<>>, namespace |-> Namespace,
           scope |-> Scope, version |-> V1]}

DetectOp ==
    /\ \E anchor \in DetectAnchors, expected \in ExpectedPayloads, observed \in ObservedPayloads :
          last' = Call("detect_identity_collision", <<anchor, expected, observed>>,
                       detect_identity_collision(anchor, expected, observed))
    /\ UNCHANGED <<commits, children, now, cache, skeleton, calculator>>

NextIdentity ==
    \/ CanonicalizeOp
    \/ CreateOp

SpecIdentity == Init /\ [][NextIdentity]_vars

NextCollision == DetectOp

SpecCollision == Init /\ [][NextCollision]_vars

(***************************************************************************)
(* Properties of the lineage store                                         *)
(***************************************************************************)
\* the store after the step
NextStore == [commits |-> commits', children |-> children']

\* C1: no operation, successful or failed, removes a stored commit or changes
\* any of its fields: after every step each commit of the store is still
\* retrievable by its id and equal, field by field, to what it was; and a
\* commit just appended is stored as it was returned.
CommitsImmutable ==
    [][/\ \A id \in DOMAIN commits :
            /\ StoreExists(NextStore, id)
            /\ StoreGet(NextStore, id) = commits[id]
       /\ (last'.op = "append" /\ ~IsError(last'.res)) =>
            StoreGet(NextStore, last'.res.commit_id) = last'.res]_vars

\* a full store on which a commit_merge has just failed
CommitsImmutable_Witness ==
    /\ Cardinality(DOMAIN commits) = MaxCommits
    /\ last.op = "commit_merge"
    /\ last.res = IdentityError

\* C2: an append whose parents sequence holds an id that is not in the store
\* raises LineageError and leaves both dicts of the store as they were: no
\* commit is added and no child edge, not even to the parents that exist.
UnknownParentRejected ==
    [][(/\ last'.op = "append"
        /\ \E i \in DOMAIN last'.args[1] : last'.args[1][i] \notin DOMAIN commits)
       => (/\ last'.res = LineageError
           /\ commits' = commits
           /\ children' = children)]_vars

\* an append has just failed on a parents sequence with a known and an unknown id
UnknownParentRejected_Witness ==
    /\ last.op = "append"
    /\ last.res = LineageError
    /\ \E i \in DOMAIN last.args[1] : last.args[1][i] \in DOMAIN commits
    /\ \E i \in DOMAIN last.args[1] : last.args[1][i] \notin DOMAIN commits

\* the ids reachable from the ids of S over parent pointers, S included
RECURSIVE ParentClosure(_)
ParentClosure(S) ==
    LET T == S \cup UNION {Range(commits[x].parents) : x \in S}
    IN  IF T = S THEN S ELSE ParentClosure(T)

\* the proper ancestors of a stored commit
ProperAncestors(id) == ParentClosure(Range(commits[id].parents))

ParentsStored == \A id \in DOMAIN commits : Range(commits[id].parents) \subseteq DOMAIN commits

\* C3: every parent id of a stored commit is the id of a stored commit, and of
\* one stored before the step that stored the child; no commit is its own
\* ancestor; every commit is, or has as an ancestor, a commit without parents.
LineageAcyclic ==
    /\ [](/\ ParentsStored
          /\ \A id \in DOMAIN commits :
                /\ id \notin ProperAncestors(id)
                /\ \E g \in ProperAncestors(id) \cup {id} : commits[g].parents = <<>>)
    /\ [][\A id \in DOMAIN commits' \ DOMAIN commits :
             Range(commits'[id].parents) \subseteq DOMAIN commits]_vars

\* a commit with two different parents, one the parent of the other
LineageAcyclic_Witness ==
    \E id \in DOMAIN commits :
        /\ Len(commits[id].parents) = 2
        /\ commits[id].parents[1] \in ProperAncestors(commits[id].parents[2])

(***************************************************************************)
(* Properties of three_way_merge_analysis, stated on the call just made:   *)
(* the store is the one it ran on                                          *)
(***************************************************************************)
IsAnalysis == last.op = "three_way_merge_analysis"

HeadsExist == IsAnalysis /\ last.args[1] \in DOMAIN commits /\ last.args[2] \in DOMAIN commits

\* the analysis returned a decision
Decided == IsAnalysis /\ last.res.t = "decision"

\* the common-ancestor candidate with the greatest (timestamp, id), or none
NewestCandidate ==
    LET cands == StoreLcaCandidates(Store, last.args[1], last.args[2])
    IN  IF cands = {} THEN NoCommit
        ELSE CHOOSE c \in cands :
                \A d \in cands : ~KeyLess(CommitKey(commits[c]), CommitKey(commits[d]))

\* the view of a head: the last commit per subject along its single-parent chain
ViewOf(head) == _index_latest_by_subject(_commit_chain(Store, head))

LeftView == ViewOf(last.args[1])

RightView == ViewOf(last.args[2])

BaseView == IF NewestCandidate = NoCommit THEN <<>> ELSE ViewOf(NewestCandidate)

\* the positions of the entries about a subject
EntriesOf(entries, sid) == {i \in DOMAIN entries : entries[i].subject_id = sid}

\* exactly one action for the subject, with this proposal, and no conflict
OnlyAction(sid, proposal) ==
    /\ EntriesOf(last.res.conflicts, sid) = {}
    /\ Cardinality(EntriesOf(last.res.actions, sid)) = 1
    /\ \A i \in EntriesOf(last.res.actions, sid) : last.res.actions[i].proposal = proposal

\* canonicalize_payload gives the same on both payloads: the same encoding,
\* or the failure on both
SameCanonical(c1, c2) == Canonical(c1.payload) = Canonical(c2.payload)

\* both payloads have a canonical encoding, and the same one
IdenticalEncodings(c1, c2) ==
    /\ ~IsError(Canonical(c1.payload))
    /\ Canonical(c1.payload) = Canonical(c2.payload)

\* C4: a subject in the left and in the right view whose payloads are
\* canonically different (canonicalize_payload gives two encodings, or an
\* encoding for one and none for the other), with no entry in the base view or
\* with neither side canonically equal to the base view's payload, has exactly
\* one entry in the conflicts of the decision and none in its actions.
ConflictRecorded ==
    Decided =>
        \A sid \in DOMAIN LeftView \cap DOMAIN RightView :
            (/\ ~SameCanonical(LeftView[sid], RightView[sid])
             /\ \/ sid \notin DOMAIN BaseView
                \/ /\ ~SameCanonical(LeftView[sid], BaseView[sid])
                   /\ ~SameCanonical(RightView[sid], BaseView[sid]))
            => /\ Cardinality(EntriesOf(last.res.conflicts, sid)) = 1
               /\ EntriesOf(last.res.actions, sid) = {}

\* a decision on a subject that both sides changed away from the base view
ConflictRecorded_Witness ==
    /\ Decided
    /\ \E sid \in DOMAIN LeftView \cap DOMAIN RightView \cap DOMAIN BaseView :
          /\ ~SameCanonical(LeftView[sid], RightView[sid])
          /\ ~SameCanonical(LeftView[sid], BaseView[sid])
          /\ ~SameCanonical(RightView[sid], BaseView[sid])
          /\ EntriesOf(last.res.conflicts, sid) # {}

\* C5, as the specification states it: for two heads of the store the analysis
\* returns a decision, and every subject of the union of the left, right and
\* base views has exactly one entry over its actions and conflicts.
AnalysisTotal ==
    HeadsExist =>
        /\ last.res.t = "decision"
        /\ \A sid \in DOMAIN LeftView \cup DOMAIN RightView \cup DOMAIN BaseView :
              Cardinality(EntriesOf(last.res.actions, sid))
                + Cardinality(EntriesOf(last.res.conflicts, sid)) = 1

\* the analysis has raised on two heads of the store, for a subject of the base
\* view that neither side's view holds
AnalysisTotal_Witness ==
    /\ HeadsExist
    /\ last.res = AssertionError
    /\ DOMAIN BaseView \ (DOMAIN LeftView \cup DOMAIN RightView) # {}

\* C6, as the specification states it, read in the analysis' favour where both
\* sides carry the very same payload: accept_either is proposed for a subject
\* of both views exactly when the two payloads have identical canonical
\* encodings.
EitherIffIdentical ==
    Decided =>
        \A sid \in DOMAIN LeftView \cap DOMAIN RightView :
            LET either == \E i \in EntriesOf(last.res.actions, sid) :
                              last.res.actions[i].proposal = "accept_either"
            IN  /\ IdenticalEncodings(LeftView[sid], RightView[sid]) => either
                /\ either => \/ IdenticalEncodings(LeftView[sid], RightView[sid])
                             \/ LeftView[sid].payload = RightView[sid].payload

\* accept_either proposed for two different payloads that have no canonical
\* encoding
EitherIffIdentical_Witness ==
    /\ Decided
    /\ \E sid \in DOMAIN LeftView \cap DOMAIN RightView :
          /\ LeftView[sid].payload # RightView[sid].payload
          /\ IsError(Canonical(LeftView[sid].payload))
          /\ IsError(Canonical(RightView[sid].payload))
          /\ \E i \in EntriesOf(last.res.actions, sid) :
                last.res.actions[i].proposal = "accept_either"

\* C7: for a subject of all three views whose left and right payloads differ
\* canonically: the right equal to base and the left not gives the one action
\* accept_left, the left equal to base and the right not gives the one action
\* accept_right, and either way no conflict for the subject.
UnchangedSideYields ==
    Decided =>
        \A sid \in DOMAIN LeftView \cap DOMAIN RightView \cap DOMAIN BaseView :
            ~SameCanonical(LeftView[sid], RightView[sid]) =>
                /\ (/\ SameCanonical(RightView[sid], BaseView[sid])
                    /\ ~SameCanonical(LeftView[sid], BaseView[sid]))
                   => OnlyAction(sid, "accept_left")
                /\ (/\ SameCanonical(LeftView[sid], BaseView[sid])
                    /\ ~SameCanonical(RightView[sid], BaseView[sid]))
                   => OnlyAction(sid, "accept_right")

\* a decision on a subject the left branch changed and the right branch left as
\* the base view has it
UnchangedSideYields_Witness ==
    /\ Decided
    /\ \E sid \in DOMAIN LeftView \cap DOMAIN RightView \cap DOMAIN BaseView :
          /\ ~SameCanonical(LeftView[sid], RightView[sid])
          /\ SameCanonical(RightView[sid], BaseView[sid])
          /\ LeftView[sid].commit_id # BaseView[sid].commit_id
          /\ OnlyAction(sid, "accept_left")

\* C8: in a decision, a subject of the left view that the right view lacks has
\* exactly one action, accept_left citing the left view's commit, and a subject
\* of the right view that the left view lacks has exactly one action,
\* accept_right citing the right view's commit, whether or not the base view
\* holds the subject; neither has a conflict.
OneSideAccepted ==
    Decided =>
        /\ \A sid \in DOMAIN LeftView \ DOMAIN RightView :
              /\ OnlyAction(sid, "accept_left")
              /\ \A i \in EntriesOf(last.res.actions, sid) :
                    /\ "left_commit" \in DOMAIN last.res.actions[i]
                    /\ last.res.actions[i].left_commit = LeftView[sid].commit_id
        /\ \A sid \in DOMAIN RightView \ DOMAIN LeftView :
              /\ OnlyAction(sid, "accept_right")
              /\ \A i \in EntriesOf(last.res.actions, sid) :
                    /\ "right_commit" \in DOMAIN last.res.actions[i]
                    /\ last.res.actions[i].right_commit = RightView[sid].commit_id

\* a decision on a subject of the left and the base view that the right view lacks
OneSideAccepted_Witness ==
    /\ Decided
    /\ \E sid \in (DOMAIN LeftView \cap DOMAIN BaseView) \ DOMAIN RightView :
          OnlyAction(sid, "accept_left")

\* the analysis ran on the heads of two one-commit branches off a genesis
\* commit, the left adding subject B, the right subject C, the genesis commit
\* on a third subject
SharedGenesisBranches ==
    /\ HeadsExist
    /\ LET l == commits[last.args[1]]
           r == commits[last.args[2]]
       IN  /\ Len(l.parents) = 1
           /\ r.parents = l.parents
           /\ commits[l.parents[1]].parents = <<>>
           /\ l.subject_id = SubjB
           /\ r.subject_id = SubjC
           /\ commits[l.parents[1]].subject_id \notin {SubjB, SubjC}

\* the subject of the genesis commit the two branches share
GenesisSubject == commits[commits[last.args[1]].parents[1]].subject_id

\* C9, amended: on two branches off a shared genesis commit, left adding only
\* subject B and right only subject C, the decision has exactly three actions
\* (accept_left for B, accept_right for C, and accept_either for the subject of
\* the genesis commit, which both views hold) and no conflict.
BranchesYieldThreeActions ==
    SharedGenesisBranches =>
        /\ last.res.t = "decision"
        /\ Len(last.res.actions) = 3
        /\ last.res.conflicts = <<>>
        /\ OnlyAction(SubjB, "accept_left")
        /\ OnlyAction(SubjC, "accept_right")
        /\ OnlyAction(GenesisSubject, "accept_either")

\* a decision on such branches
BranchesYieldThreeActions_Witness ==
    /\ SharedGenesisBranches
    /\ Decided
    /\ last.res.base_commit = commits[last.args[1]].parents[1]

\* C9, as the specification states it: exactly two actions, accept_left for B
\* and accept_right for C, and no conflict.
BranchesYieldTwoActions ==
    SharedGenesisBranches =>
        /\ last.res.t = "decision"
        /\ Len(last.res.actions) = 2
        /\ last.res.conflicts = <<>>
        /\ OnlyAction(SubjB, "accept_left")
        /\ OnlyAction(SubjC, "accept_right")

\* C10: the base_commit of a decision is none exactly when lca_candidates of
\* the two heads is empty; otherwise it is a candidate and no candidate has a
\* greater (timestamp, id) key.
BaseIsNewestCandidate ==
    Decided =>
        LET cands == StoreLcaCandidates(Store, last.args[1], last.args[2])
            base == last.res.base_commit
        IN  /\ (base = NoCommit) <=> (cands = {})
            /\ cands # {} =>
                  /\ base \in cands
                  /\ \A c \in cands :
                        ~KeyLess(CommitKey(commits[base]), CommitKey(commits[c]))

\* a decision whose base was chosen among several candidates by its timestamp,
\* against the order of the ids
BaseIsNewestCandidate_Witness ==
    /\ Decided
    /\ \E c \in StoreLcaCandidates(Store, last.args[1], last.args[2]) :
          /\ c > last.res.base_commit
          /\ last.res.base_commit # NoCommit

(***************************************************************************)
(* Properties of the views and of commit_merge                             *)
(***************************************************************************)
\* C11: the chain of a head h ends with h, each commit on it is the single
\* parent of the next, and it starts with the first commit met that has no
\* parent or at least two, so it holds nothing beyond that commit; the view
\* maps exactly the subjects on the chain, each to its commit nearest to h.
ViewIsLatestOnChain ==
    \A h \in DOMAIN commits :
        LET ch == _commit_chain(Store, h)
            view == _index_latest_by_subject(ch)
        IN  /\ Len(ch) >= 1
            /\ ch[Len(ch)] = commits[h]
            /\ \A i \in 1..Len(ch) : ch[i] = commits[ch[i].commit_id]
            /\ \A i \in 2..Len(ch) : ch[i].parents = <<ch[i - 1].commit_id>>
            /\ Len(ch[1].parents) # 1
            /\ DOMAIN view = {ch[i].subject_id : i \in 1..Len(ch)}
            /\ \A sid \in DOMAIN view :
                  \E i \in 1..Len(ch) :
                      /\ view[sid] = ch[i]
                      /\ ch[i].subject_id = sid
                      /\ \A j \in (i + 1)..Len(ch) : ch[j].subject_id # sid

\* an analysis whose left head sits on a chain that stops at a commit with two
\* parents and holds one subject twice
ViewIsLatestOnChain_Witness ==
    /\ Decided
    /\ LET ch == _commit_chain(Store, last.args[1])
       IN  /\ Len(ch) >= 2
           /\ Len(ch[1].parents) = 2
           /\ ch[1].subject_id = ch[2].subject_id
           /\ ch[1].payload # ch[2].payload

(***************************************************************************)
(* Properties of the merge engine as a client of the store                 *)
(***************************************************************************)
\* the commits a step adds
Added == DOMAIN commits' \ DOMAIN commits

\* C12: a call of three_way_merge_analysis, returning a decision or raising,
\* leaves the commits and the child edges as they were; a step that changes
\* either is an append or a commit_merge, and what it changes is what
\* LineageStore.append does: the old commits stay, each added commit gets its
\* own empty-or-later-filled children entry, and the child edges grow exactly
\* by the edges from the parents of the added commits to them.
AnalysisLeavesStore ==
    [][/\ last'.op = "three_way_merge_analysis" =>
              (commits' = commits /\ children' = children)
       /\ (commits' # commits \/ children' # children) =>
              /\ last'.op \in {"append", "commit_merge"}
              /\ Added # {}
              /\ DOMAIN children' = DOMAIN children \cup Added
              /\ \A x \in DOMAIN commits : commits'[x] = commits[x]
              /\ \A p \in DOMAIN children' :
                    children'[p] =
                        (IF p \in DOMAIN children THEN children[p] ELSE {})
                        \cup {c \in Added : p \in Range(commits'[c].parents)}]_vars

\* an analysis has just returned a decision on a full store that holds a
\* commit made by commit_merge
AnalysisLeavesStore_Witness ==
    /\ Decided
    /\ Cardinality(DOMAIN commits) = MaxCommits
    /\ \E x \in DOMAIN commits : commits[x].op \in {"merge", "replace"}

\* C13: three_way_merge_analysis with a left or right head that is not in the
\* store, and commit_merge with a left or right parent that is not in the
\* store, raise MergeError, whatever the other arguments are (the other head,
\* the payloads, a namespace no anchor can be made from), and leave the
\* commits and the child edges as they were.
AbsentHeadRejected ==
    [][(/\ last'.op \in {"three_way_merge_analysis", "commit_merge"}
        /\ (last'.args[1] \notin DOMAIN commits \/ last'.args[2] \notin DOMAIN commits))
       => (/\ last'.res = MergeError
           /\ commits' = commits
           /\ children' = children)]_vars

\* a commit_merge has just raised MergeError for one stored and one absent
\* parent, called with an empty namespace, which IdentityAnchor.create rejects
AbsentHeadRejected_Witness ==
    /\ last.op = "commit_merge"
    /\ last.res = MergeError
    /\ last.args[3].namespace = <<>>
    /\ last.args[1] \in DOMAIN commits
    /\ last.args[2] \notin DOMAIN commits

\* C14: a commit_merge that returns was called with both parents in the store
\* and has appended exactly one commit per entry of the mapping, in the order
\* of the entries, and nothing else: the commits returned are the commits
\* added, pairwise different, the old commits are as they were.  Each added
\* commit has the parents (left, right) and the resolved payload of its entry;
\* when the id of the anchor made from (kind, namespace, scope, payload) is the
\* entry's subject id the commit is a merge under that id, otherwise it is a
\* replace under the anchor's id.
MergeCommitsCreated ==
    [][(last'.op = "commit_merge" /\ last'.res.t = "list") =>
          LET left == last'.args[1]
              right == last'.args[2]
              mg == last'.args[3]
              out == last'.res.xs
          IN  /\ left \in DOMAIN commits
              /\ right \in DOMAIN commits
              /\ Len(out) = Len(mg.items)
              /\ Added = {out[i].commit_id : i \in 1..Len(out)}
              /\ Cardinality(Added) = Len(mg.items)
              /\ \A x \in DOMAIN commits : commits'[x] = commits[x]
              /\ \A i \in 1..Len(out) :
                    LET c == commits'[out[i].commit_id]
                        sid == mg.items[i][1]
                        a == Anchor(Kind, mg.namespace, mg.items[i][2], Scope, V1)
                    IN  /\ c = out[i]
                        /\ c.parents = <<left, right>>
                        /\ c.payload = mg.items[i][2]
                        /\ c.subject_kind = Kind
                        /\ c.subject_namespace = mg.namespace
                        /\ c.subject_scope = Scope
                        /\ IF a.id = sid
                           THEN c.op = "merge" /\ c.subject_id = sid
                           ELSE c.op = "replace" /\ c.subject_id = a.id /\ a.id # sid]_vars

\* a commit_merge of two entries has just returned a merge and a replace
\* commit, both now in the store
MergeCommitsCreated_Witness ==
    /\ last.op = "commit_merge"
    /\ last.res.t = "list"
    /\ Len(last.res.xs) = 2
    /\ last.res.xs[1].op = "merge"
    /\ last.res.xs[2].op = "replace"
    /\ last.res.xs[1].commit_id \in DOMAIN commits
    /\ last.res.xs[2].commit_id \in DOMAIN commits

\* C15: a commit_merge that raises leaves the store exactly as it was before
\* the call: the commits and the child edges are unchanged, no commit appended
\* during the call remains.
FailedMergeLeavesStore ==
    [][(last'.op = "commit_merge" /\ IsError(last'.res)) =>
          (commits' = commits /\ children' = children)]_vars

\* a commit_merge of two entries has just raised CanonicalizationError on its
\* second resolved payload, and the commit of the first entry is in the store
FailedMergeLeavesStore_Witness ==
    /\ last.op = "commit_merge"
    /\ last.res = CanonicalizationError
    /\ Len(last.args[3].items) = 2
    /\ \E x \in DOMAIN commits :
          /\ commits[x].op = "merge"
          /\ commits[x].payload = last.args[3].items[1][2]
          /\ commits[x].parents = <<last.args[1], last.args[2]>>
          /\ x \in children[last.args[1]]

(***************************************************************************)
(* Properties of the graph queries of the store                            *)
(***************************************************************************)
\* G, A, B, M form a diamond: G without parents, A and B with parent G, M
\* with parents (A, B)
IsDiamond(G, A, B, M) ==
    /\ {G, A, B, M} \subseteq DOMAIN commits
    /\ Cardinality({G, A, B, M}) = 4
    /\ commits[G].parents = <<>>
    /\ commits[A].parents = <<G>>
    /\ commits[B].parents = <<G>>
    /\ commits[M].parents = <<A, B>>

\* C16: for every stored commit x, ancestors_of(x) is the set of the commits
\* reachable from x by one or more parent edges, x itself not among them; so
\* it is for the call just made; and for a diamond G, A, B, M the ancestors
\* of M are G, A and B.
AncestorsIsClosure ==
    /\ \A x \in DOMAIN commits :
          /\ StoreAncestorsOf(Store, x) = ProperAncestors(x)
          /\ x \notin StoreAncestorsOf(Store, x)
          /\ \A y \in DOMAIN commits :
                y \in StoreAncestorsOf(Store, x) <=>
                    \E p \in Range(commits[x].parents) :
                        y = p \/ y \in StoreAncestorsOf(Store, p)
    /\ (last.op = "ancestors_of" /\ last.args[1] \in DOMAIN commits) =>
          last.res = ProperAncestors(last.args[1])
    /\ \A G \in DOMAIN commits, A \in DOMAIN commits, B \in DOMAIN commits,
          M \in DOMAIN commits :
          IsDiamond(G, A, B, M) => StoreAncestorsOf(Store, M) = {G, A, B}

\* ancestors_of has just returned the three ancestors of the merge commit of
\* a diamond
AncestorsIsClosure_Witness ==
    /\ last.op = "ancestors_of"
    /\ \E G \in DOMAIN commits, A \in DOMAIN commits, B \in DOMAIN commits :
          /\ IsDiamond(G, A, B, last.args[1])
          /\ last.res = {G, A, B}

\* C17: for all stored commits x and y, lca_candidates(x, y) is the
\* intersection of ancestors_of(x) with x added and ancestors_of(y) with y
\* added; it is the same set as lca_candidates(y, x); it contains x when x
\* is an ancestor of y; and the call just made returned that set.
LcaIsIntersection ==
    /\ \A x \in DOMAIN commits, y \in DOMAIN commits :
          /\ StoreLcaCandidates(Store, x, y) =
                (StoreAncestorsOf(Store, x) \cup {x}) \cap (StoreAncestorsOf(Store, y) \cup {y})
          /\ StoreLcaCandidates(Store, x, y) =
                {z \in DOMAIN commits : /\ z = x \/ z \in ProperAncestors(x)
                                        /\ z = y \/ z \in ProperAncestors(y)}
          /\ StoreLcaCandidates(Store, x, y) = StoreLcaCandidates(Store, y, x)
          /\ x \in ProperAncestors(y) => x \in StoreLcaCandidates(Store, x, y)
    /\ (/\ last.op = "lca_candidates"
        /\ last.args[1] \in DOMAIN commits
        /\ last.args[2] \in DOMAIN commits) =>
          last.res = (ProperAncestors(last.args[1]) \cup {last.args[1]})
                        \cap (ProperAncestors(last.args[2]) \cup {last.args[2]})

\* lca_candidates(x, y) has just returned, for x an ancestor of y with an
\* ancestor of its own, a set that holds x and that ancestor
LcaIsIntersection_Witness ==
    /\ last.op = "lca_candidates"
    /\ last.args[1] \in DOMAIN commits
    /\ last.args[2] \in DOMAIN commits
    /\ last.args[1] \in ProperAncestors(last.args[2])
    /\ ProperAncestors(last.args[1]) # {}
    /\ last.args[1] \in last.res
    /\ ProperAncestors(last.args[1]) \subseteq last.res

\* C18: get and ancestors_of of an id that is not in the store, and
\* lca_candidates with either id not in the store, raise LineageError; exists
\* of such an id returns false; and no call of these four operations, on
\* known or unknown ids, changes the commits or the child edges.
UnknownIdRejected ==
    [][/\ (last'.op \in {"get", "ancestors_of"} /\ last'.args[1] \notin DOMAIN commits)
              => last'.res = LineageError
       /\ (/\ last'.op = "lca_candidates"
           /\ (last'.args[1] \notin DOMAIN commits \/ last'.args[2] \notin DOMAIN commits))
              => last'.res = LineageError
       /\ (last'.op = "exists" /\ last'.args[1] \notin DOMAIN commits)
              => last'.res = FALSE
       /\ last'.op \in {"get", "exists", "ancestors_of", "lca_candidates"}
              => (commits' = commits /\ children' = children)]_vars

\* lca_candidates has just raised LineageError for a stored first and an
\* unknown second id
UnknownIdRejected_Witness ==
    /\ last.op = "lca_candidates"
    /\ last.args[1] \in DOMAIN commits
    /\ last.args[2] \notin DOMAIN commits
    /\ last.res = LineageError

\* C19: in every reachable state, for stored commits p and c, c is in
\* children_of(p) exactly when p is among the parents of c, and children_of
\* holds stored commits only; children_of of an id that is not in the store
\* is the empty set; the call just made returned the commits that have its
\* argument as a parent; and every commit a step adds has no children after
\* that step.
ChildrenReverseParents ==
    /\ [](/\ \A p \in DOMAIN commits :
                /\ StoreChildrenOf(Store, p) \subseteq DOMAIN commits
                /\ \A c \in DOMAIN commits :
                      c \in StoreChildrenOf(Store, p) <=> p \in Range(commits[c].parents)
          /\ \A p \in Ids("store") \ DOMAIN commits : StoreChildrenOf(Store, p) = {}
          /\ last.op = "children_of" =>
                last.res = {c \in DOMAIN commits : last.args[1] \in Range(commits[c].parents)})
    /\ [][\A c \in Added : StoreChildrenOf(NextStore, c) = {}]_vars

\* children_of has just returned the two children of a commit, one of which
\* names it twice as its parent
ChildrenReverseParents_Witness ==
    /\ last.op = "children_of"
    /\ Cardinality(last.res) = 2
    /\ \E c \in last.res : commits[c].parents = <<last.args[1], last.args[1]>>

\* C20: all_commits returns every stored commit exactly once (as many elements
\* as there are commits, each commit among them), in strictly ascending order
\* of (timestamp, id): of two positions i < j the commit at i has the smaller
\* timestamp, or the same timestamp and the smaller id.  So for the store of
\* every reachable state and for the call just made.
AllCommitsSorted ==
    LET out == StoreAllCommits(Store)
    IN  /\ Len(out) = Cardinality(DOMAIN commits)
        /\ \A x \in DOMAIN commits : \E i \in 1..Len(out) : out[i] = commits[x]
        /\ \A i \in 1..Len(out), j \in 1..Len(out) :
              i < j => \/ out[i].timestamp_ms < out[j].timestamp_ms
                       \/ /\ out[i].timestamp_ms = out[j].timestamp_ms
                          /\ out[i].commit_id < out[j].commit_id
        /\ last.op = "all_commits" => last.res = out

\* all_commits has just returned three commits, two of them with the same
\* timestamp, and a commit with a greater id before one with a smaller id
AllCommitsSorted_Witness ==
    /\ last.op = "all_commits"
    /\ Len(last.res) = 3
    /\ \E i \in 1..2 : last.res[i].timestamp_ms = last.res[i + 1].timestamp_ms
    /\ \E i \in 1..2 : last.res[i].commit_id > last.res[i + 1].commit_id
    /\ \E i \in 1..2 : last.res[i].timestamp_ms < last.res[i + 1].timestamp_ms

(***************************************************************************)
(* Properties of canonicalization, identity and collision detection        *)
(***************************************************************************)
IsDetect == last.op = "detect_identity_collision"

\* the payloads the anchor of the call just made was built from
BuiltFrom ==
    {p \in {P0, P1, Q1} : last.args[1] = IdentityAnchorCreate(Kind, Namespace, p, Scope, V1)}

\* x and y have the same canonical encoding
SameEncoding(x, y) ==
    /\ ~IsError(canonicalize_payload(x))
    /\ canonicalize_payload(x) = canonicalize_payload(y)

RECURSIVE StructEq(_, _)
StructEq(x, y) ==
    IF x.t # y.t THEN FALSE
    ELSE IF x.t = "map" THEN
        /\ Len(x.items) = Len(y.items)
        /\ \A i \in 1..Len(x.items) : \E j \in 1..Len(y.items) :
              /\ x.items[i][1] = y.items[j][1]
              /\ StructEq(x.items[i][2], y.items[j][2])
    ELSE IF x.t = "set" THEN
        /\ Len(x.xs) = Len(y.xs)
        /\ \A i \in 1..Len(x.xs) : \E j \in 1..Len(y.xs) : StructEq(x.xs[i], y.xs[j])
        /\ \A j \in 1..Len(y.xs) : \E i \in 1..Len(x.xs) : StructEq(x.xs[i], y.xs[j])
    ELSE IF x.t = "list" THEN
        /\ Len(x.xs) = Len(y.xs)
        /\ \A i \in 1..Len(x.xs) : StructEq(x.xs[i], y.xs[i])
    ELSE x = y

\* two calls of IdentityAnchor.create in a row have returned anchors
TwoAnchors ==
    /\ last.op = "create"
    /\ last.prev.op = "create"
    /\ ~IsError(last.res)
    /\ ~IsError(last.prev.res)

\* the (kind, namespace, scope, version) of the two calls
MetaOf(args) == <<args[1], args[2], args[3], args[4]>>

\* the two calls differ in exactly one of kind, namespace and scope
OneMetaChanged ==
    Cardinality({i \in 1..4 : last.args[i] # last.prev.args[i]}) = 1

\* the part of C22 that does not depend on what a payload change is: equal
\* metadata and structurally equal payloads give the same id, and a change of
\* exactly one of kind, namespace and scope, the payload staying structurally
\* equal, gives another id.
IdStableAndMetaSensitive ==
    TwoAnchors =>
        /\ (/\ MetaOf(last.args) = MetaOf(last.prev.args)
            /\ StructEq(last.args[5], last.prev.args[5]))
              => last.res.id = last.prev.res.id
        /\ (OneMetaChanged /\ StructEq(last.args[5], last.prev.args[5]))
              => last.res.id # last.prev.res.id

\* C22: with a collision-free hash, IdentityAnchor.create gives the same id
\* for identical (kind, namespace, scope, version, payload), another id when
\* exactly one of kind, namespace and scope is changed, and another id when
\* the payload is changed to a value that is not the same up to mapping key
\* order and set iteration order.
IdDeterminedByContent ==
    /\ IdStableAndMetaSensitive
    /\ (/\ TwoAnchors
        /\ MetaOf(last.args) = MetaOf(last.prev.args)
        /\ ~StructEq(last.args[5], last.prev.args[5]))
          => last.res.id # last.prev.res.id

\* create has just returned, for a payload holding the list of strings
\* ["1", "2"], the id it returned before, under the same metadata, for the
\* payload holding the set {1, 2}
IdDeterminedByContent_Witness ==
    /\ TwoAnchors
    /\ MetaOf(last.args) = MetaOf(last.prev.args)
    /\ last.prev.args[5] = Q1
    /\ last.args[5] = Q2
    /\ last.res.id = last.prev.res.id

\* two calls of canonicalize_payload in a row
TwoEncodings == last.op = "canonicalize_payload" /\ last.prev.op = "canonicalize_payload"

\* C23: two values that are the same up to the insertion order of their
\* mappings and the iteration order of their sets, at every nesting level,
\* get the identical result from canonicalize_payload: the same canonical
\* string, or both are rejected.
EncodingOrderInsensitive ==
    (TwoEncodings /\ StructEq(last.args[1], last.prev.args[1]))
        => last.res = last.prev.res

\* canonicalize_payload has just returned the same string for two different
\* values: a list of a mapping and a set of a set, with the keys of the
\* mapping and the elements of both sets in different orders
EncodingOrderInsensitive_Witness ==
    /\ TwoEncodings
    /\ last.prev.args[1] = N1
    /\ last.args[1] = N1r
    /\ N1 # N1r
    /\ ~IsError(last.res)
    /\ last.res = last.prev.res

(***************************************************************************)
(* persistent_store.py (appendix A0_identity_skeleton): the append-only    *)
(* store of motif versions.  A store is [motif_versions, versions]; an     *)
(* operation returns [store, res], res being the value returned or the     *)
(* error raised.  Dict keys of the model's payloads are strs.              *)
(***************************************************************************)
StoreInvariantViolation == [t |-> "error", e |-> "StoreInvariantViolation"]
KeyError == [t |-> "error", e |-> "KeyError"]
TypeError == [t |-> "error", e |-> "TypeError"]
AttributeError == [t |-> "error", e |-> "AttributeError"]

S_motif_id == <<"m", "o", "t", "i", "f", "_", "i", "d">>
S_parent == <<"p", "a", "r", "e", "n", "t">>
S_payload == <<"p", "a", "y", "l", "o", "a", "d">>
S_meta == <<"m", "e", "t", "a">>
S_tensions == <<"t", "e", "n", "s", "i", "o", "n", "s">>
S_relations == <<"r", "e", "l", "a", "t", "i", "o", "n", "s">>
S_notes == <<"n", "o", "t", "e", "s">>
S_from == <<"f", "r", "o", "m">>
S_to == <<"t", "o">>
S_type == <<"t", "y", "p", "e">>
S_Query == <<"Q", "u", "e", "r", "y">>
S_coexists_with == <<"c", "o", "e", "x", "i", "s", "t", "s", "-", "w", "i", "t", "h">>

\* obj.get(key): the value of the last item with that key, or PyNone
DictGet(obj, key) ==
    IF \E i \in 1..Len(obj.items) : obj.items[i][1] = PyStr(key)
    THEN obj.items[CHOOSE i \in 1..Len(obj.items) : obj.items[i][1] = PyStr(key)][2]
    ELSE PyNone

\* key in obj
DictHas(obj, key) == \E i \in 1..Len(obj.items) : obj.items[i][1] = PyStr(key)

\* obj[key] = value: in place of the old item, or as a new last item
DictSet(obj, key, value) ==
    IF DictHas(obj, key)
    THEN PyDict([i \in 1..Len(obj.items) |->
                    IF obj.items[i][1] = PyStr(key) THEN <<PyStr(key), value>> ELSE obj.items[i]])
    ELSE PyDict(Append(obj.items, <<PyStr(key), value>>))

\* json.loads(json.dumps(obj, ensure_ascii=False)): lists and dicts are built
\* anew from the text, element by element; a tuple is written as an array and
\* read back as a list; a set or bytes raises TypeError
RECURSIVE _deepcopy_json(_)
_deepcopy_json(obj) ==
    IF _is_primitive(obj) THEN obj
    ELSE IF obj.t \in {"list", "pytuple"} THEN
        LET vals == [i \in 1..Len(obj.xs) |-> _deepcopy_json(obj.xs[i])]
        IN  IF \E i \in 1..Len(obj.xs) : vals[i] = TypeError THEN TypeError ELSE PyList(vals)
    ELSE IF obj.t = "map" THEN
        LET vals == [i \in 1..Len(obj.items) |-> _deepcopy_json(obj.items[i][2])]
        IN  IF \E i \in 1..Len(obj.items) : vals[i] = TypeError THEN TypeError
            ELSE PyDict([i \in 1..Len(obj.items) |-> <<obj.items[i][1], vals[i]>>])
    ELSE TypeError

\* the seed dict of _make_version_id
Seed(motif_id, payload, parent_version_id, meta) ==
    PyDict(<< <<PyStr(S_motif_id), PyStr(motif_id)>>,
              <<PyStr(S_parent), parent_version_id>>,
              <<PyStr(S_payload), payload>>,
              <<PyStr(S_meta), meta>> >>)

\* hashlib.sha256(blob).hexdigest()[:16] of the sorted-keys JSON text, taken
\* as collision-free: the text of a version that st holds gets the digest in
\* that version's id, and a text not hashed into st yet gets a digest that no
\* version of st has (digests are numbered in the order they enter st)
_stable_hash(st, obj) ==
    With(JsonDumps(obj), LAMBDA blob :
        With({v \in DOMAIN st.versions :
                JsonDumps(Seed(st.versions[v].motif_id, st.versions[v].payload,
                               st.versions[v].parent_version_id, st.versions[v].meta)) = blob},
             LAMBDA same :
                IF same # {}
                THEN With(CHOOSE v \in same : TRUE, LAMBDA v :
                        SubSeq(v, Len(st.versions[v].motif_id) + 2, Len(v)))
                ELSE <<"<">> \o NatChars(Cardinality(DOMAIN st.versions) + 1)))

\* PyStr(f"{motif_id}:{_stable_hash(seed)}"), or the TypeError of json.dumps
_make_version_id(st, motif_id, payload, parent_version_id, meta) ==
    IF _deepcopy_json(payload) = TypeError \/ _deepcopy_json(meta) = TypeError THEN TypeError
    ELSE PyStr(motif_id \o <<":">>
               \o _stable_hash(st, Seed(motif_id, payload, parent_version_id, meta)))

MotifVersion(motif_id, version_id, parent_version_id, created_at_unix, payload, meta) ==
    [t |-> "version", motif_id |-> motif_id, version_id |-> version_id,
     parent_version_id |-> parent_version_id, created_at_unix |-> created_at_unix,
     payload |-> payload, meta |-> meta]

\* PersistentStore.__init__
EmptyPersistentStore == [motif_versions |-> <<>>, versions |-> <<>>]

\* d[k] = v of a Python dict d
DictPut(d, k, v) == [x \in DOMAIN d \cup {k} |-> IF x = k THEN v ELSE d[x]]

\* meta or {}
MetaOrEmpty(meta) == IF meta = PyNone THEN EmptyDict ELSE meta

\* create_motif from the line after its check on: the first version of
\* motif_id is made and stored
StoreFirstVersion(st, motif_id, payload, meta, t) ==
    With(_make_version_id(st, motif_id, payload, PyNone, MetaOrEmpty(meta)), LAMBDA version_id :
        IF version_id = TypeError THEN [store |-> st, res |-> TypeError]
        ELSE With(MotifVersion(motif_id, version_id.s, PyNone, t, _deepcopy_json(payload),
                               _deepcopy_json(MetaOrEmpty(meta))), LAMBDA mv :
                [store |-> [versions |-> DictPut(st.versions, version_id.s, mv),
                            motif_versions |->
                                DictPut(st.motif_versions, motif_id, <<version_id.s>>)],
                 res |-> mv]))

\* A faulty create_motif: an existing motif is started over.
create_motif_Overwrite(st, motif_id, payload, meta, t) ==
    StoreFirstVersion(st, motif_id, payload, meta, t)

\* store.create_motif(motif_id, payload, meta=meta), time.time() reading t
create_motif(st, motif_id, payload, meta, t) ==
    IF motif_id \in DOMAIN st.motif_versions
    THEN [store |-> st, res |-> StoreInvariantViolation]
    ELSE StoreFirstVersion(st, motif_id, payload, meta, t)

\* append_version from the line after its two checks on: the version with
\* the given parent (PyNone for the latest) is made and stored at the end of
\* the lineage of motif_id, a motif of st
StoreNextVersion(st, motif_id, payload, parent_version_id, meta, t) ==
    With(IF parent_version_id = PyNone
         THEN PyStr(st.motif_versions[motif_id][Len(st.motif_versions[motif_id])])
         ELSE parent_version_id, LAMBDA parent :
        With(_make_version_id(st, motif_id, payload, parent, MetaOrEmpty(meta)), LAMBDA version_id :
            IF version_id = TypeError THEN [store |-> st, res |-> TypeError]
            ELSE IF version_id.s \in DOMAIN st.versions
            THEN [store |-> st, res |-> StoreInvariantViolation]
            ELSE With(MotifVersion(motif_id, version_id.s, parent, t, _deepcopy_json(payload),
                                   _deepcopy_json(MetaOrEmpty(meta))), LAMBDA mv :
                    [store |-> [versions |-> DictPut(st.versions, version_id.s, mv),
                                motif_versions |->
                                    [st.motif_versions EXCEPT ![motif_id] = Append(@, version_id.s)]],
                     res |-> mv])))

\* A faulty append_version: any parent is taken.
append_version_AnyParent(st, motif_id, payload, parent_version_id, meta, t) ==
    IF motif_id \notin DOMAIN st.motif_versions
    THEN [store |-> st, res |-> StoreInvariantViolation]
    ELSE StoreNextVersion(st, motif_id, payload, parent_version_id, meta, t)

\* A faulty append_version: the lineage is extended before the parent is
\* compared with the latest version.
append_version_WriteFirst(st, motif_id, payload, parent_version_id, meta, t) ==
    IF motif_id \notin DOMAIN st.motif_versions
    THEN [store |-> st, res |-> StoreInvariantViolation]
    ELSE With(StoreNextVersion(st, motif_id, payload, parent_version_id, meta, t), LAMBDA r :
            IF parent_version_id # PyNone
               /\ parent_version_id
                    # PyStr(st.motif_versions[motif_id][Len(st.motif_versions[motif_id])])
            THEN [store |-> r.store, res |-> StoreInvariantViolation]
            ELSE r)

\* store.append_version(motif_id, payload, parent_version_id=..., meta=...);
\* parent_version_id is PyNone or PyStr(id)
append_version(st, motif_id, payload, parent_version_id, meta, t) ==
    IF motif_id \notin DOMAIN st.motif_versions
    THEN [store |-> st, res |-> StoreInvariantViolation]
    ELSE IF parent_version_id # PyNone
            /\ parent_version_id # PyStr(st.motif_versions[motif_id][Len(st.motif_versions[motif_id])])
    THEN [store |-> st, res |-> StoreInvariantViolation]
    ELSE StoreNextVersion(st, motif_id, payload, parent_version_id, meta, t)

\* store.read_version(version_id)
read_version(st, version_id) ==
    IF version_id \notin DOMAIN st.versions THEN KeyError ELSE st.versions[version_id]

\* store.latest_version(motif_id)
latest_version(st, motif_id) ==
    IF motif_id \notin DOMAIN st.motif_versions THEN KeyError
    ELSE st.versions[st.motif_versions[motif_id][Len(st.motif_versions[motif_id])]]

\* store.lineage(motif_id): a new list of the stored versions
lineage(st, motif_id) ==
    IF motif_id \notin DOMAIN st.motif_versions THEN KeyError
    ELSE PyList([i \in 1..Len(st.motif_versions[motif_id]) |->
                    st.versions[st.motif_versions[motif_id][i]]])

(***************************************************************************)
(* write_barrier.py and commit_gate.py                                     *)
(***************************************************************************)
\* str.strip(): the spaces at both ends removed
RECURSIVE LStrip(_)
LStrip(s) == IF Len(s) > 0 /\ Head(s) = " " THEN LStrip(Tail(s)) ELSE s

RECURSIVE RStrip(_)
RStrip(s) == IF Len(s) > 0 /\ s[Len(s)] = " " THEN RStrip(SubSeq(s, 1, Len(s) - 1)) ELSE s

Strip(s) == RStrip(LStrip(s))

\* str.lower()
Lower(s) == [i \in 1..Len(s) |-> IF s[i] = "Q" THEN "q" ELSE s[i]]

\* m in s, of two strs
Contains(s, m) == \E i \in 0..(Len(s) - Len(m)) : SubSeq(s, i + 1, i + Len(m)) = m

RevisionRejected(reason) == [t |-> "error", e |-> "RevisionRejected", reason |-> reason]

RevisionProposal(motif_id, base_version_id, proposed_payload, rationale) ==
    [motif_id |-> motif_id, base_version_id |-> base_version_id,
     proposed_payload |-> proposed_payload, rationale |-> rationale]

WriteBarrierResult(accepted, reason, new_version) ==
    [t |-> "result", accepted |-> accepted, reason |-> reason, new_version |-> new_version]

\* WriteBarrier._require_fields; required is a sequence of <<name, type>>.
\* PyNone, or the RevisionRejected raised
RECURSIVE _require_fields(_, _)
_require_fields(obj, required) ==
    IF Len(required) = 0 THEN PyNone
    ELSE IF ~DictHas(obj, Head(required)[1]) THEN RevisionRejected("missing required field")
    ELSE IF DictGet(obj, Head(required)[1]).t # Head(required)[2]
    THEN RevisionRejected("field must be of type")
    ELSE _require_fields(obj, Tail(required))

forbidden_markers ==
    {<<"q", "u", "e", "r", "y">>, <<"s", "o", "l", "v", "e">>,
     <<"s", "a", "t", "i", "s", "f", "y">>, <<"e", "v", "a", "l">>,
     <<"o", "p", "t", "i", "m", "i", "z", "e">>, <<"r", "e", "w", "a", "r", "d">>,
     <<"l", "o", "s", "s">>}

forbidden_top_level ==
    {<<"q", "u", "e", "r", "y">>, <<"s", "e", "a", "r", "c", "h">>,
     <<"e", "v", "a", "l", "u", "a", "t", "e">>,
     <<"o", "b", "j", "e", "c", "t", "i", "v", "e">>, <<"r", "e", "w", "a", "r", "d">>,
     <<"l", "o", "s", "s">>, <<"s", "o", "l", "v", "e", "r">>}

\* the loop over payload["relations"]: PyNone, or the RevisionRejected raised
\* by the first relation that fails
RECURSIVE CheckRelations(_)
CheckRelations(rels) ==
    IF Len(rels) = 0 THEN PyNone
    ELSE With(Head(rels), LAMBDA rel :
        IF rel.t # "map" THEN RevisionRejected("each relation must be a dict.")
        ELSE With(_require_fields(rel, <<<<S_from, "str">>, <<S_to, "str">>, <<S_type, "str">>>>),
                  LAMBDA req :
            IF req # PyNone THEN req
            ELSE IF \/ Strip(DictGet(rel, S_from).s) = <<>>
                    \/ Strip(DictGet(rel, S_to).s) = <<>>
                    \/ Strip(DictGet(rel, S_type).s) = <<>>
            THEN RevisionRejected("relation fields must be non-empty strings.")
            ELSE IF \E m \in forbidden_markers : Contains(Lower(DictGet(rel, S_type).s), m)
            THEN RevisionRejected("relation types must remain non-executable")
            ELSE CheckRelations(Tail(rels))))

\* WriteBarrier._validate_structural_invariants over the store st: PyNone, the
\* RevisionRejected raised, or the KeyError of latest_version
_validate_structural_invariants(st, proposal) ==
    With(latest_version(st, proposal.motif_id), LAMBDA latest :
        IF latest = KeyError THEN KeyError
        ELSE IF proposal.base_version_id # latest.version_id
        THEN RevisionRejected("base_version_id must be the latest version")
        ELSE IF proposal.proposed_payload.t # "map"
        THEN RevisionRejected("proposed_payload must be a JSON-like dict.")
        ELSE With(_require_fields(proposal.proposed_payload,
                      <<<<S_tensions, "list">>, <<S_relations, "list">>, <<S_notes, "str">>>>),
                  LAMBDA req :
            IF req # PyNone THEN req
            ELSE With(DictGet(proposal.proposed_payload, S_tensions).xs, LAMBDA tensions :
                IF Len(tensions) = 0 THEN RevisionRejected("tensions must not be empty")
                ELSE IF \E i \in 1..Len(tensions) :
                            tensions[i].t # "str" \/ Strip(tensions[i].s) = <<>>
                THEN RevisionRejected("each tension must be a non-empty string.")
                ELSE IF \E i, j \in 1..Len(tensions) :
                            i # j /\ Strip(tensions[i].s) = Strip(tensions[j].s)
                THEN RevisionRejected("tensions must be unique")
                ELSE With(CheckRelations(DictGet(proposal.proposed_payload, S_relations).xs),
                          LAMBDA rels :
                    IF rels # PyNone THEN rels
                    ELSE IF \E i \in 1..Len(proposal.proposed_payload.items) :
                                Lower(proposal.proposed_payload.items[i][1].s)
                                    \in forbidden_top_level
                    THEN RevisionRejected("top-level field is forbidden")
                    ELSE PyNone))))

\* barrier.validate(proposal): the result, or the KeyError raised
validate(st, proposal) ==
    With(_validate_structural_invariants(st, proposal), LAMBDA r :
        IF r = KeyError THEN KeyError
        ELSE IF r # PyNone THEN WriteBarrierResult(FALSE, r.reason, PyNone)
        ELSE WriteBarrierResult(TRUE, "ok", PyNone))

S_actor == <<"a", "c", "t", "o", "r">>
S_commit_message == <<"c", "o", "m", "m", "i", "t", "_", "m", "e", "s", "s", "a", "g", "e">>
S_rationale == <<"r", "a", "t", "i", "o", "n", "a", "l", "e">>
S_base_version == <<"b", "a", "s", "e", "_", "v", "e", "r", "s", "i", "o", "n">>

\* the meta dict of WriteBarrier.commit
CommitMeta(proposal, actor, commit_message) ==
    PyDict(<< <<PyStr(S_actor), PyStr(actor)>>,
              <<PyStr(S_commit_message), PyStr(commit_message)>>,
              <<PyStr(S_rationale), PyStr(proposal.rationale)>>,
              <<PyStr(S_base_version), PyStr(proposal.base_version_id)>> >>)

\* A faulty commit: the version is appended before the proposal is validated.
commit_AppendFirst(st, proposal, actor, commit_message, t) ==
    With(append_version(st, proposal.motif_id, proposal.proposed_payload,
                        PyStr(proposal.base_version_id),
                        CommitMeta(proposal, actor, commit_message), t), LAMBDA a :
        IF a.res = StoreInvariantViolation
        THEN [store |-> st, res |-> WriteBarrierResult(FALSE, "store_invariant_violation", PyNone)]
        ELSE IF IsError(a.res) THEN [store |-> st, res |-> a.res]
        ELSE With(_validate_structural_invariants(st, proposal), LAMBDA r :
                IF r = PyNone
                THEN [store |-> a.store, res |-> WriteBarrierResult(TRUE, "committed", a.res)]
                ELSE [store |-> a.store, res |-> WriteBarrierResult(FALSE, r.reason, PyNone)]))

\* barrier.commit(proposal, actor=..., commit_message=...): [store, res], res
\* the result or the error raised
commit(st, proposal, actor, commit_message, t) ==
    With(_validate_structural_invariants(st, proposal), LAMBDA r :
        IF r = KeyError THEN [store |-> st, res |-> KeyError]
        ELSE IF r # PyNone THEN [store |-> st, res |-> WriteBarrierResult(FALSE, r.reason, PyNone)]
        ELSE With(append_version(st, proposal.motif_id, proposal.proposed_payload,
                                 PyStr(proposal.base_version_id),
                                 CommitMeta(proposal, actor, commit_message), t), LAMBDA a :
                IF a.res = StoreInvariantViolation
                THEN [store |-> a.store,
                      res |-> WriteBarrierResult(FALSE, "store_invariant_violation", PyNone)]
                ELSE IF IsError(a.res) THEN [store |-> a.store, res |-> a.res]
                ELSE [store |-> a.store, res |-> WriteBarrierResult(TRUE, "committed", a.res)]))

\* CommitPolicy.min_iterations_between_commits
min_iterations_between_commits == 2

\* A faulty policy: a last commit at iteration 0 is taken as no commit.
_policy_allows_commit_Truthy(lci, motif_id, iteration, draw) ==
    IF motif_id \in DOMAIN lci /\ lci[motif_id] # 0
       /\ (iteration - lci[motif_id]) < min_iterations_between_commits
    THEN FALSE
    ELSE draw

\* CommitGate._policy_allows_commit; lci is _last_commit_iter and draw is
\* whether rng.random() < commit_probability
_policy_allows_commit(lci, motif_id, iteration, draw) ==
    IF motif_id \in DOMAIN lci /\ (iteration - lci[motif_id]) < min_iterations_between_commits
    THEN FALSE
    ELSE draw

\* f"Deliberate revision at iter={iteration}"
CommitMessage(iteration) ==
    <<"D", "e", "l", "i", "b", "e", "r", "a", "t", "e", " ", "r", "e", "v", "i", "s", "i",
      "o", "n", " ", "a", "t", " ", "i", "t", "e", "r", "=">> \o IntChars(iteration)

\* A faulty gate: the iteration is recorded before the proposal is considered.
consider_RecordFirst(st, lci, motif_id, proposal_payload, rationale, iteration, actor, draw, t) ==
    With(latest_version(st, motif_id), LAMBDA latest :
        IF latest = KeyError THEN [store |-> st, lci |-> lci, res |-> KeyError]
        ELSE With(RevisionProposal(motif_id, latest.version_id, proposal_payload, rationale),
                  LAMBDA proposal :
            With(validate(st, proposal), LAMBDA validation :
                IF ~validation.accepted
                THEN [store |-> st, lci |-> DictPut(lci, motif_id, iteration), res |-> validation]
                ELSE IF ~_policy_allows_commit(lci, motif_id, iteration, draw)
                THEN [store |-> st, lci |-> DictPut(lci, motif_id, iteration),
                      res |-> WriteBarrierResult(FALSE, "rejected_by_policy", PyNone)]
                ELSE With(commit(st, proposal, actor, CommitMessage(iteration), t), LAMBDA c :
                        [store |-> c.store, lci |-> DictPut(lci, motif_id, iteration),
                         res |-> c.res]))))

\* gate.consider(motif_id=..., proposal_payload=..., rationale=...,
\* iteration=..., actor=...): [store, lci, res]
consider(st, lci, motif_id, proposal_payload, rationale, iteration, actor, draw, t) ==
    With(latest_version(st, motif_id), LAMBDA latest :
        IF latest = KeyError THEN [store |-> st, lci |-> lci, res |-> KeyError]
        ELSE With(RevisionProposal(motif_id, latest.version_id, proposal_payload, rationale),
                  LAMBDA proposal :
            With(validate(st, proposal), LAMBDA validation :
                IF ~validation.accepted
                THEN [store |-> st, lci |-> lci, res |-> validation]
                ELSE IF ~_policy_allows_commit(lci, motif_id, iteration, draw)
                THEN [store |-> st, lci |-> lci,
                      res |-> WriteBarrierResult(FALSE, "rejected_by_policy", PyNone)]
                ELSE With(commit(st, proposal, actor, CommitMessage(iteration), t), LAMBDA c :
                        IF ~IsError(c.res) /\ c.res.accepted /\ c.res.new_version # PyNone
                        THEN [store |-> c.store, lci |-> DictPut(lci, motif_id, iteration),
                              res |-> c.res]
                        ELSE [store |-> c.store, lci |-> lci, res |-> c.res]))))

(***************************************************************************)
(* proposal_engine.py.  An object that the call may write to is returned   *)
(* with the result: propose_revision gives [current, res], current being   *)
(* the MotifVersion passed in as it is after the call.                     *)
(***************************************************************************)
ProposalContext(task_id, observation) == [task_id |-> task_id, observation |-> observation]

CandidateProposal(proposed_payload, rationale) ==
    [t |-> "candidate", proposed_payload |-> proposed_payload, rationale |-> rationale]

\* the tension labels of _suggest_tension; "<>" stands for the arrow character
T_speed ==
    <<"s", "p", "e", "e", "d", " ", "<", ">", " ", "s", "t", "a", "b", "i", "l", "i", "t",
      "y">>
T_cost ==
    <<"c", "o", "s", "t", " ", "<", ">", " ", "t", "h", "o", "r", "o", "u", "g", "h", "n",
      "e", "s", "s">>
T_risk ==
    <<"e", "x", "p", "l", "o", "r", "a", "t", "i", "o", "n", " ", "<", ">", " ", "s", "a",
      "f", "e", "t", "y">>
T_accuracy ==
    <<"a", "c", "c", "u", "r", "a", "c", "y", " ", "<", ">", " ", "c", "o", "n", "t", "i",
      "n", "u", "i", "t", "y">>
T_user ==
    <<"h", "e", "l", "p", "f", "u", "l", "n", "e", "s", "s", " ", "<", ">", " ", "i", "d",
      "e", "n", "t", "i", "t", "y">>
T_flexibility ==
    <<"f", "l", "e", "x", "i", "b", "i", "l", "i", "t", "y", " ", "<", ">", " ", "d", "i",
      "s", "c", "i", "p", "l", "i", "n", "e">>
T_local ==
    <<"l", "o", "c", "a", "l", " ", "s", "u", "c", "c", "e", "s", "s", " ", "<", ">", " ",
      "l", "o", "n", "g", "-", "t", "e", "r", "m", " ", "c", "o", "h", "e", "r", "e", "n",
      "c", "e">>
T_adaptation ==
    <<"a", "d", "a", "p", "t", "a", "t", "i", "o", "n", " ", "<", ">", " ", "p", "r", "e",
      "s", "e", "r", "v", "a", "t", "i", "o", "n">>
W_speed == <<"s", "p", "e", "e", "d">>
W_latency == <<"l", "a", "t", "e", "n", "c", "y">>
W_cost == <<"c", "o", "s", "t">>
W_budget == <<"b", "u", "d", "g", "e", "t">>
W_risk == <<"r", "i", "s", "k">>
W_safety == <<"s", "a", "f", "e", "t", "y">>
W_accuracy == <<"a", "c", "c", "u", "r", "a", "c", "y">>
W_correct == <<"c", "o", "r", "r", "e", "c", "t">>
W_user == <<"u", "s", "e", "r">>
W_trust == <<"t", "r", "u", "s", "t">>

\* the list candidates of _suggest_tension
TensionCandidates(ctx) ==
    With(Lower(ctx.observation), LAMBDA obs :
        With((IF Contains(obs, W_speed) \/ Contains(obs, W_latency) THEN <<T_speed>> ELSE <<>>)
             \o (IF Contains(obs, W_cost) \/ Contains(obs, W_budget) THEN <<T_cost>> ELSE <<>>)
             \o (IF Contains(obs, W_risk) \/ Contains(obs, W_safety) THEN <<T_risk>> ELSE <<>>)
             \o (IF Contains(obs, W_accuracy) \/ Contains(obs, W_correct)
                 THEN <<T_accuracy>> ELSE <<>>)
             \o (IF Contains(obs, W_user) \/ Contains(obs, W_trust) THEN <<T_user>> ELSE <<>>),
             LAMBDA candidates :
                IF Len(candidates) = 0 THEN <<T_flexibility, T_local, T_adaptation>>
                ELSE candidates))

\* ProposalEngine._suggest_tension: the values rng.choice(candidates) can return
_suggest_tension(ctx) == {TensionCandidates(ctx)[i] : i \in 1..Len(TensionCandidates(ctx))}

\* _merge_notes(existing, addition)
_merge_notes(existing, addition) ==
    IF Strip(existing) = <<>> THEN addition ELSE Strip(existing) \o <<"\n">> \o addition

\* list(payload.get(key, [])): the new list, or the TypeError raised
ListOfGet(payload, key) ==
    IF ~DictHas(payload, key) THEN PyList(<<>>)
    ELSE IF DictGet(payload, key).t = "list" THEN DictGet(payload, key)
    ELSE IF DictGet(payload, key).t = "str"
    THEN PyList([i \in 1..Len(DictGet(payload, key).s) |-> PyStr(<<DictGet(payload, key).s[i]>>)])
    ELSE IF DictGet(payload, key).t = "map"
    THEN PyList([i \in 1..Len(DictGet(payload, key).items) |-> DictGet(payload, key).items[i][1]])
    ELSE TypeError

\* str(payload.get("notes", "")) of a str, an int or None
StrOfGet(payload, key) ==
    IF ~DictHas(payload, key) THEN <<>>
    ELSE IF DictGet(payload, key).t = "str" THEN DictGet(payload, key).s
    ELSE IF DictGet(payload, key).t = "int" THEN IntChars(DictGet(payload, key).i)
    ELSE <<"N", "o", "n", "e">>

\* f"[{ctx.task_id}] +tension: {new_tension}"
TensionNote(ctx, new_tension) ==
    <<"[">> \o ctx.task_id \o <<"]", " ", "+", "t", "e", "n", "s", "i", "o", "n", ":", " ">>
    \o new_tension

\* f"[{ctx.task_id}] +relation: {a} -> {b} (coexists-with)"
RelationNote(ctx, a, b) ==
    <<"[">> \o ctx.task_id \o <<"]", " ", "+", "r", "e", "l", "a", "t", "i", "o", "n", ":", " ">>
    \o a \o <<" ", "-", ">", " ">> \o b \o <<" ", "(">> \o S_coexists_with \o <<")">>

\* the body of propose_revision after its first line: payload is the dict the
\* method works on, and the dict it returns is payload as written to by it.
\* roll is the band of rng.random(); new_tension, a and b are the rng.choice
\* results (a and b as positions in tensions, whose elements are strs)
ProposeOn(payload, ctx, roll, new_tension, a, b) ==
    IF payload.t # "map" THEN AttributeError
    ELSE With(<<ListOfGet(payload, S_tensions), ListOfGet(payload, S_relations),
                StrOfGet(payload, S_notes)>>, LAMBDA loc :
        IF loc[1] = TypeError \/ loc[2] = TypeError THEN TypeError
        ELSE IF roll = "no change" THEN CandidateProposal(payload, "No change proposed")
        ELSE IF roll = "add tension"
        THEN IF PyStr(new_tension) \notin {loc[1].xs[i] : i \in 1..Len(loc[1].xs)}
             THEN CandidateProposal(
                    DictSet(DictSet(payload, S_tensions,
                                    PyList(Append(loc[1].xs, PyStr(new_tension)))),
                            S_notes, PyStr(_merge_notes(loc[3], TensionNote(ctx, new_tension)))),
                    "Observed new pressure; propose adding tension")
             ELSE CandidateProposal(payload, "Proposed tension already present")
        ELSE IF Len(loc[1].xs) > 0 /\ loc[1].xs[a] # loc[1].xs[b]
        THEN CandidateProposal(
                DictSet(DictSet(payload, S_relations,
                                PyList(Append(loc[2].xs,
                                    PyDict(<< <<PyStr(S_from), loc[1].xs[a]>>,
                                              <<PyStr(S_to), loc[1].xs[b]>>,
                                              <<PyStr(S_type), PyStr(S_coexists_with)>> >>)))),
                        S_notes,
                        PyStr(_merge_notes(loc[3],
                                           RelationNote(ctx, loc[1].xs[a].s, loc[1].xs[b].s)))),
                "Propose linking tensions")
        ELSE CandidateProposal(payload, "Fallback: no structural change."))

\* A faulty propose_revision: it works on current.payload itself, so what it
\* writes to the payload it returns is written to current.payload.
propose_revision_NoCopy(current, ctx, roll, new_tension, a, b) ==
    With(ProposeOn(current.payload, ctx, roll, new_tension, a, b), LAMBDA res :
        IF IsError(res) THEN [current |-> current, res |-> res]
        ELSE [current |-> [current EXCEPT !.payload = res.proposed_payload], res |-> res])

\* engine.propose_revision(current, ctx): it works on a deep copy of
\* current.payload, so current is as it was
propose_revision(current, ctx, roll, new_tension, a, b) ==
    IF _deepcopy_json(current.payload) = TypeError THEN [current |-> current, res |-> TypeError]
    ELSE [current |-> current,
          res |-> ProposeOn(_deepcopy_json(current.payload), ctx, roll, new_tension, a, b)]

(***************************************************************************)
(* The state machine of appendix A0: one PersistentStore, the WriteBarrier *)
(* and the CommitGate over it, and a ProposalEngine.  The environment E    *)
(* is "motifs" (the store's own operations), "barrier" (the barrier and    *)
(* the gate on many payloads), "gate" (the gate over many iterations) or   *)
(* "propose" (the proposer).                                               *)
(***************************************************************************)
PStore == [motif_versions |-> _motif_versions, versions |-> _versions]

\* the versions a store holds at most, and in the "barrier" environment
SkeletonMaxVersions == 3
BarrierMaxVersions == 2
\* the last iteration passed to the gate, in "barrier" and in "gate"
BarrierMaxIteration == 1
GateMaxIteration == 3

MaxVersions(E) == IF E = "barrier" THEN BarrierMaxVersions ELSE SkeletonMaxVersions

TensionA == <<"a">>
TensionB == <<"b">>

\* minimal_motif_payload, with relations and notes filled in
MotifPayload(tensions, relations, notes) ==
    PyDict(<< <<PyStr(S_tensions), PyList([i \in 1..Len(tensions) |-> PyStr(tensions[i])])>>,
              <<PyStr(S_relations), PyList(relations)>>,
              <<PyStr(S_notes), PyStr(notes)>> >>)

\* {"from": a, "to": b, "type": type}
Relation(a, b, type) ==
    PyDict(<< <<PyStr(S_from), PyStr(a)>>, <<PyStr(S_to), PyStr(b)>>,
              <<PyStr(S_type), PyStr(type)>> >>)

M1 == MotifPayload(<<TensionA>>, <<>>, <<>>)
M2 == MotifPayload(<<TensionA, TensionB>>, <<>>, <<>>)
\* a payload json.dumps rejects
MSet == PyDict(<< <<PyStr(S_tensions), PySet(<<PyStr(TensionA)>>)>> >>)

MotifIds == {<<"m">>, <<"n">>}

\* a payload that is not a dict
MList == PyList(<<>>)
\* payloads with notes and with a tension that _suggest_tension proposes
MNoted == MotifPayload(<<TensionA>>, <<>>, <<"n">>)
MCost == MotifPayload(<<T_cost>>, <<>>, <<>>)

\* the payloads passed to create_motif and append_version
MotifPayloads(E) ==
    IF E = "motifs" THEN {M1, M2, MSet}
    ELSE IF E = "propose" THEN {M2, MNoted, MCost, MList}
    ELSE {M1}

\* the parent_version_id arguments: omitted, a stored version, an unknown one
ParentArgs == {PyNone, PyStr(<<"x">>)} \cup {PyStr(v) : v \in DOMAIN _versions}

\* store.create_motif(motif_id, payload); time.time() reads now
CreateMotifOp(E) ==
    /\ \E motif_id \in MotifIds, payload \in MotifPayloads(E) :
         \E r \in {create_motif(PStore, motif_id, payload, PyNone, now)} :
           /\ Cardinality(DOMAIN r.store.versions) <= MaxVersions(E)
           /\ _motif_versions' = r.store.motif_versions
           /\ _versions' = r.store.versions
           /\ last' = Call("create_motif", <<motif_id, payload>>, r.res)
    /\ UNCHANGED <<commits, children, now, cache, _last_commit_iter, calculator>>

\* store.append_version(motif_id, payload, parent_version_id=parent)
AppendVersionOp(E) ==
    /\ \E motif_id \in MotifIds, payload \in MotifPayloads(E), parent \in ParentArgs :
         \E r \in {append_version(PStore, motif_id, payload, parent, PyNone, now)} :
           /\ Cardinality(DOMAIN r.store.versions) <= MaxVersions(E)
           /\ _motif_versions' = r.store.motif_versions
           /\ _versions' = r.store.versions
           /\ last' = Call("append_version", <<motif_id, payload, parent>>, r.res)
    /\ UNCHANGED <<commits, children, now, cache, _last_commit_iter, calculator>>

\* store.read_version(version_id)
ReadVersionOp ==
    /\ \E version_id \in DOMAIN _versions \cup {<<"x">>} :
         last' = Call("read_version", <<version_id>>, read_version(PStore, version_id))
    /\ UNCHANGED <<commits, children, now, cache, skeleton, calculator>>

\* store.latest_version(motif_id)
LatestVersionOp ==
    /\ \E motif_id \in MotifIds :
         last' = Call("latest_version", <<motif_id>>, latest_version(PStore, motif_id))
    /\ UNCHANGED <<commits, children, now, cache, skeleton, calculator>>

\* store.lineage(motif_id)
LineageOp ==
    /\ \E motif_id \in MotifIds :
         last' = Call("lineage", <<motif_id>>, lineage(PStore, motif_id))
    /\ UNCHANGED <<commits, children, now, cache, skeleton, calculator>>

NextMotifs ==
    \/ CreateMotifOp("motifs")
    \/ AppendVersionOp("motifs")
    \/ ReadVersionOp
    \/ LatestVersionOp
    \/ LineageOp

SpecMotifs == Init /\ [][NextMotifs]_vars

(***************************************************************************)
(* The barrier and the gate as actions                                     *)
(***************************************************************************)
\* admissible payloads
MRel == MotifPayload(<<TensionA, TensionB>>, <<Relation(TensionA, TensionB, S_coexists_with)>>, <<>>)
\* payloads the barrier rejects: no tension, two tensions equal once stripped,
\* a relation type with a marker, a query-like field, no notes
MEmpty == MotifPayload(<<>>, <<>>, <<>>)
MDup == MotifPayload(<<<<" ", "a">>, TensionA>>, <<>>, <<>>)
MQueryRel == MotifPayload(<<TensionA, TensionB>>, <<Relation(TensionA, TensionB, S_Query)>>, <<>>)
MTop == DictSet(M1, S_Query, PyStr(<<>>))
MNoNotes ==
    PyDict(<< <<PyStr(S_tensions), PyList(<<PyStr(TensionA)>>)>>,
              <<PyStr(S_relations), PyList(<<>>)>> >>)
\* a payload the barrier admits and json.dumps rejects
MUnser == DictSet(M1, <<"x">>, PySet(<<>>))
\* an admissible payload with a tuple under a further key
MTuple == DictSet(M1, <<"x">>, PyTuple(<<PyInt(1)>>))

\* the payloads proposed to the barrier and to the gate
GatePayloads(E) ==
    IF E = "barrier"
    THEN {M1, MRel, MEmpty, MDup, MQueryRel, MTop, MNoNotes, MList, MUnser, MTuple}
    ELSE {M2, MEmpty}

Iterations(E) == IF E = "barrier" THEN 0..BarrierMaxIteration ELSE 0..GateMaxIteration

Rationale == <<"r">>
Actor == <<"c", "o", "m", "m", "i", "t", "-", "g", "a", "t", "e">>

\* the proposals passed to the barrier: any motif, a stored or unknown base
Proposals(E) ==
    {RevisionProposal(m, b, p, Rationale) :
        m \in MotifIds, b \in DOMAIN _versions \cup {<<"x">>}, p \in GatePayloads(E)}

\* barrier.validate(proposal)
ValidateOp(E) ==
    /\ \E proposal \in Proposals(E) :
         last' = Call("validate", <<proposal>>, validate(PStore, proposal))
    /\ UNCHANGED <<commits, children, now, cache, skeleton, calculator>>

\* barrier.commit(proposal, actor=..., commit_message=...)
BarrierCommitOp(E) ==
    /\ \E proposal \in Proposals(E) :
         \E r \in {commit(PStore, proposal, Actor, <<"c">>, now)} :
           /\ Cardinality(DOMAIN r.store.versions) <= MaxVersions(E)
           /\ _motif_versions' = r.store.motif_versions
           /\ _versions' = r.store.versions
           /\ last' = Call("commit", <<proposal>>, r.res)
    /\ UNCHANGED <<commits, children, now, cache, _last_commit_iter, calculator>>

\* gate.consider(motif_id=..., proposal_payload=..., rationale=...,
\* iteration=...); draw is whether rng.random() < commit_probability
ConsiderOp(E) ==
    /\ \E motif_id \in MotifIds, payload \in GatePayloads(E), iteration \in Iterations(E),
          draw \in BOOLEAN :
         \E r \in {consider(PStore, _last_commit_iter, motif_id, payload, Rationale,
                            iteration, Actor, draw, now)} :
           /\ Cardinality(DOMAIN r.store.versions) <= MaxVersions(E)
           /\ _motif_versions' = r.store.motif_versions
           /\ _versions' = r.store.versions
           /\ _last_commit_iter' = r.lci
           /\ last' = Call("consider", <<motif_id, payload, iteration, draw>>, r.res)
    /\ UNCHANGED <<commits, children, now, cache, calculator>>

NextBarrier ==
    \/ CreateMotifOp("barrier")
    \/ ValidateOp("barrier")
    \/ BarrierCommitOp("barrier")
    \/ ConsiderOp("barrier")

SpecBarrier == Init /\ [][NextBarrier]_vars

NextGate ==
    \/ CreateMotifOp("gate")
    \/ ConsiderOp("gate")

SpecGate == Init /\ [][NextGate]_vars

(***************************************************************************)
(* The proposer as an action: current is a version the store holds, so the *)
(* store holds whatever the call has made of it.                           *)
(***************************************************************************)
\* the contexts passed to propose_revision
Contexts ==
    {ProposalContext(<<"t">>, <<>>), ProposalContext(<<"t">>, W_cost),
     ProposalContext(<<"t">>, W_risk \o <<" ">> \o W_user)}

\* the positions rng.choice(tensions) can pick in the payload of version v
Picks(v) ==
    IF _versions[v].payload.t = "map" /\ DictGet(_versions[v].payload, S_tensions).t = "list"
       /\ Len(DictGet(_versions[v].payload, S_tensions).xs) > 0
    THEN 1..Len(DictGet(_versions[v].payload, S_tensions).xs)
    ELSE {1}

\* engine.propose_revision(store.read_version(v), ctx)
ProposeOp ==
    /\ \E v \in DOMAIN _versions, ctx \in Contexts,
          roll \in {"no change", "add tension", "add relation"} :
         \E new_tension \in _suggest_tension(ctx), a \in Picks(v), b \in Picks(v) :
           \E r \in {propose_revision(_versions[v], ctx, roll, new_tension, a, b)} :
             /\ _versions' = [_versions EXCEPT ![v] = r.current]
             /\ last' = Call("propose_revision", <<v, ctx, roll>>, r.res)
    /\ UNCHANGED <<commits, children, now, cache, _motif_versions, _last_commit_iter, calculator>>

NextPropose ==
    \/ CreateMotifOp("propose")
    \/ ProposeOp

SpecPropose == Init /\ [][NextPropose]_vars

(***************************************************************************)
(* Properties of the persistent store                                      *)
(***************************************************************************)
\* s is an initial segment of q
IsPrefix(s, q) == Len(s) <= Len(q) /\ \A i \in 1..Len(s) : s[i] = q[i]

\* each lineage is a chain: its first version has no parent and every later
\* version names the version just before it
LineageLinear ==
    \A m \in DOMAIN _motif_versions :
        /\ Len(_motif_versions[m]) >= 1
        /\ \A i \in 1..Len(_motif_versions[m]) :
             /\ _motif_versions[m][i] \in DOMAIN _versions
             /\ _versions[_motif_versions[m][i]].version_id = _motif_versions[m][i]
             /\ _versions[_motif_versions[m][i]].motif_id = m
             /\ _versions[_motif_versions[m][i]].parent_version_id
                    = IF i = 1 THEN PyNone ELSE PyStr(_motif_versions[m][i - 1])

\* a step keeps every lineage as an initial segment of the new one and every
\* stored version as it was
LineageGrowsAtEnd ==
    /\ \A m \in DOMAIN _motif_versions :
         m \in DOMAIN _motif_versions' /\ IsPrefix(_motif_versions[m], _motif_versions'[m])
    /\ \A v \in DOMAIN _versions :
         v \in DOMAIN _versions' /\ _versions'[v] = _versions[v]

\* C24: in every reachable state each motif's lineage is a linear chain (the
\* first version has no parent, every later version's parent is the version
\* just before it), and every step only extends lineages at their end and
\* leaves every stored version as it was.
LineageLinearAppendOnly == [](LineageLinear) /\ [][LineageGrowsAtEnd]_vars

\* a lineage of three versions has been built by appends
LineageLinearAppendOnly_Witness ==
    /\ last.op = "append_version"
    /\ ~IsError(last.res)
    /\ \E m \in DOMAIN _motif_versions : Len(_motif_versions[m]) = 3

\* the id of motif m's latest version
LatestId(m) == _motif_versions[m][Len(_motif_versions[m])]

\* the call c, made in the current state, is one of the three refused ones:
\* create_motif of an existing motif, append_version to a missing motif,
\* append_version with a parent that is not the motif's latest version
RefusedCall(c) ==
    \/ c.op = "create_motif" /\ c.args[1] \in DOMAIN _motif_versions
    \/ /\ c.op = "append_version"
       /\ \/ c.args[1] \notin DOMAIN _motif_versions
          \/ c.args[3] # PyNone /\ c.args[3] # PyStr(LatestId(c.args[1]))

\* C25: create_motif of an existing motif id, append_version for a motif that
\* does not exist and append_version with a parent_version_id that is not the
\* motif's latest version each raise StoreInvariantViolation and leave all
\* versions and all lineages as they were.
ViolationLeavesStore ==
    [][RefusedCall(last') =>
          /\ last'.res = StoreInvariantViolation
          /\ UNCHANGED <<_motif_versions, _versions>>]_vars

\* append_version was refused for naming the first of a motif's two versions
ViolationLeavesStore_Witness ==
    /\ last.op = "append_version"
    /\ last.res = StoreInvariantViolation
    /\ last.args[1] \in DOMAIN _motif_versions
    /\ Len(_motif_versions[last.args[1]]) = 2
    /\ last.args[3] = PyStr(_motif_versions[last.args[1]][1])

(***************************************************************************)
(* Properties of the barrier and the gate                                  *)
(***************************************************************************)
\* C26: a call of validate, and a call of commit or consider that returns
\* accepted=False, leaves the store (all versions and all lineages) and the
\* gate's record of last commit iterations as they were.
RejectionLeavesState ==
    [][(\/ last'.op = "validate"
        \/ /\ last'.op \in {"commit", "consider"}
           /\ ~IsError(last'.res)
           /\ ~last'.res.accepted)
       => UNCHANGED <<_motif_versions, _versions, _last_commit_iter>>]_vars

\* the gate has committed at iteration 0 and has then refused, by its policy,
\* an admissible proposal for the same motif
RejectionLeavesState_Witness ==
    /\ last.op = "consider"
    /\ ~IsError(last.res)
    /\ last.res = WriteBarrierResult(FALSE, "rejected_by_policy", PyNone)
    /\ last.args[1] \in DOMAIN _last_commit_iter
    /\ last.args[4]

\* the call c is a consider that committed
Committed(c) == c.op = "consider" /\ ~IsError(c.res) /\ c.res.accepted

\* the latest version of motif m was committed by the gate at iteration i
LatestCommittedAt(m, i) ==
    DictGet(latest_version(PStore, m).meta, S_commit_message) = PyStr(CommitMessage(i))

\* C27: when the gate commits for a motif at iteration j and its previous
\* commit for that motif was at iteration i (the commit that made the motif's
\* latest version), then j - i >= min_iterations_between_commits, whatever
\* the random draws are.
CommitsSpacedApart ==
    [][Committed(last') =>
          \A i \in Iterations("gate") :
              LatestCommittedAt(last'.args[1], i)
                  => last'.args[3] - i >= min_iterations_between_commits]_vars

\* the gate has committed twice for one motif
CommitsSpacedApart_Witness ==
    /\ Committed(last)
    /\ Len(_motif_versions[last.args[1]]) = 3
    /\ _last_commit_iter[last.args[1]] = last.args[3]

(***************************************************************************)
(* Properties of the proposer                                              *)
(***************************************************************************)
\* C28: propose_revision leaves the store as it was, the payload of the
\* version passed in as current included, also when the proposal it returns
\* adds a tension or a relation.
ProposalLeavesStore ==
    [][last'.op = "propose_revision" => UNCHANGED <<_motif_versions, _versions>>]_vars

\* the proposal returned has one relation more than the payload of current
ProposalLeavesStore_Witness ==
    /\ last.op = "propose_revision"
    /\ ~IsError(last.res)
    /\ Len(DictGet(last.res.proposed_payload, S_relations).xs)
         = Len(DictGet(_versions[last.args[1]].payload, S_relations).xs) + 1

(***************************************************************************)
(* Appendix A2_hieroglyphic_calculator: checker.py, transforms.py,         *)
(* state.py and orchestrator_stub.py.  An expression is a dict             *)
(* {"kind": "const", "value": n} or {"kind": "add" | "mul", "args": [...]}.*)
(***************************************************************************)
S_kind == <<"k", "i", "n", "d">>
S_value == <<"v", "a", "l", "u", "e">>
S_args == <<"a", "r", "g", "s">>
S_const == <<"c", "o", "n", "s", "t">>
S_add == <<"a", "d", "d">>
S_mul == <<"m", "u", "l">>
S_scope == <<"s", "c", "o", "p", "e">>
S_parent_id == <<"p", "a", "r", "e", "n", "t", "_", "i", "d">>
S_transform_id == <<"t", "r", "a", "n", "s", "f", "o", "r", "m", "_", "i", "d">>
S_note == <<"n", "o", "t", "e">>
S_eval == <<"e", "v", "a", "l">>
S_solve == <<"s", "o", "l", "v", "e">>
S_A2 == <<"A", "2", ":">>
S_arithmetic == <<"a", "r", "i", "t", "h", "m", "e", "t", "i", "c">>

\* s.startswith(p)
StartsWith(s, p) == Len(p) <= Len(s) /\ SubSeq(s, 1, Len(p)) = p

\* isinstance(x, int): a bool is an int
IsInt(x) == x.t \in {"int", "bool"}

\* int(x) of an int or a bool
IntOf(x) == IF x.t = "bool" THEN (IF x.b THEN 1 ELSE 0) ELSE x.i

CheckResult(ok, reasons) == [t |-> "check", ok |-> ok, reasons |-> reasons]

\* checker._is_const and transforms._is_const
_is_const(expr) == DictGet(expr, S_kind) = PyStr(S_const) /\ IsInt(DictGet(expr, S_value))

_is_add(expr) == DictGet(expr, S_kind) = PyStr(S_add) /\ DictGet(expr, S_args).t = "list"

_is_mul(expr) == DictGet(expr, S_kind) = PyStr(S_mul) /\ DictGet(expr, S_args).t = "list"

\* list(expr.get("args", [])): the new list, or the TypeError list() raises
\* for a value that cannot be iterated
_args(expr) ==
    IF ~DictHas(expr, S_args) THEN PyList(<<>>)
    ELSE With(DictGet(expr, S_args), LAMBDA v :
        IF v.t \in {"list", "set"} THEN PyList(v.xs)
        ELSE IF v.t = "str" THEN PyList([i \in 1..Len(v.s) |-> PyStr(<<v.s[i]>>)])
        ELSE IF v.t = "map" THEN PyList([i \in 1..Len(v.items) |-> v.items[i][1]])
        ELSE TypeError)

\* the loop of _walk over the arguments: nodes extended by the walk of each,
\* or the error raised by the first walk that fails
RECURSIVE WalkArgs(_, _)
RECURSIVE _walk(_)
WalkArgs(nodes, args) ==
    IF Len(args) = 0 THEN PyList(nodes)
    ELSE With(_walk(Head(args)), LAMBDA w :
            IF IsError(w) THEN w ELSE WalkArgs(nodes \o w.xs, Tail(args)))

\* checker._walk: the list of the nodes in preorder, or the error raised;
\* expr.get raises AttributeError on a value that is not a dict
_walk(expr) ==
    IF expr.t # "map" THEN AttributeError
    ELSE IF DictGet(expr, S_kind) \in {PyStr(S_add), PyStr(S_mul)}
    THEN With(_args(expr), LAMBDA args :
            IF IsError(args) THEN args ELSE WalkArgs(<<expr>>, args.xs))
    ELSE PyList(<<expr>>)

\* checker._is_well_formed, of a dict
RECURSIVE _is_well_formed(_)
_is_well_formed(expr) ==
    IF DictGet(expr, S_kind) = PyStr(S_const) THEN IsInt(DictGet(expr, S_value))
    ELSE IF DictGet(expr, S_kind) \in {PyStr(S_add), PyStr(S_mul)}
    THEN With(DictGet(expr, S_args), LAMBDA args :
            /\ args.t = "list"
            /\ Len(args.xs) >= 2
            /\ \A i \in 1..Len(args.xs) : args.xs[i].t = "map" /\ _is_well_formed(args.xs[i]))
    ELSE FALSE

_scope_allowed(scope) == StartsWith(scope, S_A2) /\ Contains(scope, S_arithmetic)

\* abs(v) > 10_000_000 is out of range
ConstLimit == 10000000

\* the reasons appended for the constant nodes, in the order of nodes
RECURSIVE ConstReasons(_)
ConstReasons(nodes) ==
    IF Len(nodes) = 0 THEN <<>>
    ELSE (IF _is_const(Head(nodes))
          THEN With(IntOf(DictGet(Head(nodes), S_value)), LAMBDA v :
                  (IF v < 0 THEN <<"negative_const_forbidden">> ELSE <<>>)
                  \o (IF v > ConstLimit \/ -v > ConstLimit THEN <<"const_out_of_range">> ELSE <<>>))
          ELSE <<>>)
         \o ConstReasons(Tail(nodes))

\* check_candidate(candidate), of a dict: the CheckResult, or the error raised
check_candidate(candidate) ==
    With(<<DictGet(candidate, S_scope), DictGet(candidate, S_payload),
           IF DictHas(candidate, S_meta) THEN DictGet(candidate, S_meta) ELSE EmptyDict>>,
         LAMBDA in :
    With(IF in[1].t # "str" \/ in[1].s = <<>> THEN <<"missing_or_invalid_scope">>
         ELSE IF ~_scope_allowed(in[1].s) THEN <<"scope_out_of_bounds">>
         ELSE <<>>, LAMBDA r1 :
        IF in[2].t # "map" THEN CheckResult(FALSE, r1 \o <<"missing_or_invalid_payload">>)
        ELSE With(r1 \o (IF _is_well_formed(in[2]) THEN <<>> ELSE <<"payload_not_well_formed">>)
                  \o (IF in[3].t # "map" THEN <<"missing_or_invalid_meta">>
                      ELSE (IF DictGet(in[3], S_parent_id).t # "str"
                               \/ DictGet(in[3], S_parent_id).s = <<>>
                            THEN <<"missing_parent_id">> ELSE <<>>)
                           \o (IF DictGet(in[3], S_transform_id).t # "str"
                                  \/ DictGet(in[3], S_transform_id).s = <<>>
                               THEN <<"missing_transform_id">> ELSE <<>>)), LAMBDA r2 :
             With(_walk(in[2]), LAMBDA nodes :
                IF IsError(nodes) THEN nodes
                ELSE With(r2 \o ConstReasons(nodes.xs)
                          \o (IF in[3].t = "map" /\ DictGet(in[3], S_transform_id).t = "str"
                                 /\ (\/ Contains(DictGet(in[3], S_transform_id).s, S_eval)
                                     \/ Contains(DictGet(in[3], S_transform_id).s, S_solve))
                              THEN <<"solver_like_transform_forbidden">> ELSE <<>>),
                          LAMBDA reasons :
                        IF reasons = <<>> THEN CheckResult(TRUE, <<>>)
                        ELSE CheckResult(FALSE, reasons))))))

(***************************************************************************)
(* check_candidate as calls on candidates drawn from a bounded set         *)
(***************************************************************************)
\* state.expr_const, expr_add, expr_mul, on an int and on lists of dicts (the
\* copies dict(a) are the values a)
expr_const(value) == PyDict(<< <<PyStr(S_kind), PyStr(S_const)>>, <<PyStr(S_value), PyInt(value)>> >>)
expr_add(args) == PyDict(<< <<PyStr(S_kind), PyStr(S_add)>>, <<PyStr(S_args), PyList(args)>> >>)
expr_mul(args) == PyDict(<< <<PyStr(S_kind), PyStr(S_mul)>>, <<PyStr(S_args), PyList(args)>> >>)

\* well-formed expressions without and with a negative constant, one with a
\* constant out of range
E2 == expr_const(2)
EAdd == expr_add(<<expr_const(2), expr_const(2)>>)
ENeg == expr_const(-1)
EAddNeg == expr_add(<<expr_const(2), expr_const(-1)>>)
EMulNeg == expr_mul(<<expr_add(<<expr_const(2), expr_const(-1)>>), expr_const(3)>>)
EBig == expr_const(25000000)
\* expressions that are not well-formed: one argument, an unknown kind, an
\* argument that is not a dict, args that is None, a bool as value
EOneArg == expr_add(<<expr_const(-1)>>)
EUnknown ==
    PyDict(<< <<PyStr(S_kind), PyStr(<<"n", "e", "g">>)>>,
              <<PyStr(S_args), PyList(<<expr_const(-1)>>)>> >>)
EIntArg ==
    PyDict(<< <<PyStr(S_kind), PyStr(S_add)>>,
              <<PyStr(S_args), PyList(<<expr_const(-1), PyInt(2)>>)>> >>)
EArgsNone == PyDict(<< <<PyStr(S_kind), PyStr(S_add)>>, <<PyStr(S_args), PyNone>> >>)
EBool == PyDict(<< <<PyStr(S_kind), PyStr(S_const)>>, <<PyStr(S_value), PyBool(TRUE)>> >>)

CheckPayloads ==
    {E2, EAdd, ENeg, EAddNeg, EMulNeg, EBig, EOneArg, EUnknown, EIntArg, EArgsNone, EBool,
     PyList(<<>>)}

ScopeInt == <<"A", "2", ":", "a", "r", "i", "t", "h", "m", "e", "t", "i", "c", ":", "i", "n", "t">>
ScopeOther == <<"A", "2", ":", "o", "t", "h", "e", "r">>

CheckScopes == {PyStr(ScopeInt), PyStr(ScopeOther), PyStr(<<>>), PyInt(5)}

State001 == <<"s", "t", "a", "t", "e", "_", "0", "0", "1">>

\* {"parent_id": parent_id, "transform_id": transform_id}
Meta(parent_id, transform_id) ==
    PyDict(<< <<PyStr(S_parent_id), parent_id>>, <<PyStr(S_transform_id), transform_id>> >>)

T_manual == <<"m", "a", "n", "u", "a", "l">>
T_eval_all == <<"e", "v", "a", "l", "_", "a", "l", "l">>
T_resolve == <<"r", "e", "s", "o", "l", "v", "e">>

\* metas: a plain one, two with a solver-like id, one without ids, one with an
\* id that is not a str, one that is not a dict
CheckMetas ==
    {Meta(PyStr(State001), PyStr(T_manual)), Meta(PyStr(State001), PyStr(T_eval_all)),
     Meta(PyStr(State001), PyStr(T_resolve)), EmptyDict, Meta(PyStr(State001), PyInt(1)),
     PyList(<<>>)}

\* {"scope": scope, "payload": payload, "meta": meta}
Candidate(scope, payload, meta) ==
    PyDict(<< <<PyStr(S_scope), scope>>, <<PyStr(S_payload), payload>>, <<PyStr(S_meta), meta>> >>)

Candidates ==
    {Candidate(s, p, m) : s \in CheckScopes, p \in CheckPayloads, m \in CheckMetas}
    \cup {PyDict(<< <<PyStr(S_payload), p>> >>) : p \in CheckPayloads}

\* check_candidate(candidate)
CheckCandidateOp ==
    /\ \E candidate \in Candidates :
         last' = Call("check_candidate", <<candidate>>, check_candidate(candidate))
    /\ UNCHANGED <<commits, children, now, cache, skeleton, calculator>>

NextChecker == CheckCandidateOp

SpecChecker == Init /\ [][NextChecker]_vars

(***************************************************************************)
(* A2 transforms (transforms.py); its _is_const, _is_add, _is_mul and      *)
(* _args are the same functions as the checker's                           *)
(***************************************************************************)
ValueError == [t |-> "error", e |-> "ValueError"]

\* x == y on the values of a payload: dicts compare without their insertion
\* order, lists element by element, and a bool equals the int of its value
RECURSIVE PyEq(_, _)
PyEq(x, y) ==
    IF IsInt(x) /\ IsInt(y) THEN IntOf(x) = IntOf(y)
    ELSE IF x.t # y.t THEN FALSE
    ELSE IF x.t = "map" THEN
        /\ Len(x.items) = Len(y.items)
        /\ \A i \in 1..Len(x.items) :
              /\ DictHas(y, x.items[i][1].s)
              /\ PyEq(x.items[i][2], DictGet(y, x.items[i][1].s))
    ELSE IF x.t = "list" THEN
        /\ Len(x.xs) = Len(y.xs)
        /\ \A i \in 1..Len(x.xs) : PyEq(x.xs[i], y.xs[i])
    ELSE x = y

\* {"kind": "const", "value": int(value)}
_const(value) == PyDict(<< <<PyStr(S_kind), PyStr(S_const)>>, <<PyStr(S_value), PyInt(value)>> >>)

\* dict(a): the copy of a dict, {} of an empty list, TypeError of an int, a
\* bool or None
DictOf(a) ==
    IF a.t = "map" THEN a
    ELSE IF a.t = "list" /\ a.xs = <<>> THEN EmptyDict
    ELSE TypeError

\* {"kind": kind, "args": [dict(a) for a in args]}, or the error of the first
\* dict(a) that raises
_rebuild(kind, args) ==
    IF \E i \in 1..Len(args) : IsError(DictOf(args[i])) THEN TypeError
    ELSE PyDict(<< <<PyStr(S_kind), PyStr(kind)>>,
                   <<PyStr(S_args), PyList([i \in 1..Len(args) |-> DictOf(args[i])])>> >>)

\* the loop of _flatten over args from its first element on: flat extended by
\* the arguments of each element of the given kind and by each other element,
\* as a list, or the error of the first a.get or _args that raises
RECURSIVE FlattenArgs(_, _, _)
FlattenArgs(kind, args, flat) ==
    IF args = <<>> THEN PyList(flat)
    ELSE IF Head(args).t # "map" THEN AttributeError
    ELSE IF DictGet(Head(args), S_kind) = PyStr(kind)
    THEN With(_args(Head(args)), LAMBDA inner :
            IF IsError(inner) THEN inner
            ELSE FlattenArgs(kind, Tail(args), flat \o inner.xs))
    ELSE FlattenArgs(kind, Tail(args), Append(flat, Head(args)))

\* _flatten(kind, expr), or the error raised
_flatten(kind, expr) ==
    IF DictGet(expr, S_kind) # PyStr(kind) THEN expr
    ELSE With(_args(expr), LAMBDA args :
        IF IsError(args) THEN args
        ELSE With(FlattenArgs(kind, args.xs, <<>>), LAMBDA flat :
            IF IsError(flat) THEN flat ELSE _rebuild(kind, flat.xs)))

\* [a for a in args if _is_const(a)] and [a for a in args if not _is_const(a)]
\* of dicts
Consts(args) == SelectSeq(args, LAMBDA a : _is_const(a))
NonConsts(args) == SelectSeq(args, LAMBDA a : ~_is_const(a))

_sort_consts_last(args) == NonConsts(args) \o Consts(args)

\* the transforms, by class; FlattenAssociative(kind) raises ValueError for a
\* kind other than "add" and "mul"
FlattenAssociative(kind) ==
    IF kind \notin {S_add, S_mul} THEN ValueError
    ELSE [t |-> "transform", cls |-> "FlattenAssociative", _kind |-> kind]
CombineConstantsAdd == [t |-> "transform", cls |-> "CombineConstantsAdd", _kind |-> S_add]
CombineConstantsMul == [t |-> "transform", cls |-> "CombineConstantsMul", _kind |-> S_mul]
NormalizeOrdering == [t |-> "transform", cls |-> "NormalizeOrdering", _kind |-> <<>>]

T_flatten == <<"f", "l", "a", "t", "t", "e", "n", ":">>
T_combine_consts == <<"c", "o", "m", "b", "i", "n", "e", "_", "c", "o", "n", "s", "t", "s", ":">>
T_normalize == <<"n", "o", "r", "m", "a", "l", "i", "z", "e", ":", "c", "o", "n", "s", "t", "s", "_", "l", "a", "s", "t">>

\* transform.transform_id
transform_id(transform) ==
    IF transform.cls = "FlattenAssociative" THEN T_flatten \o transform._kind
    ELSE IF transform.cls = "NormalizeOrdering" THEN T_normalize
    ELSE T_combine_consts \o transform._kind

N_noop == <<"n", "o", "-", "o", "p">>
N_flattened == <<"f", "l", "a", "t", "t", "e", "n", "e", "d", " ">>
N_not == <<"n", "o", "-", "o", "p", " ", "(", "n", "o", "t", " ">>
N_need == <<"n", "o", "-", "o", "p", " ", "(", "n", "e", "e", "d", " ", ">", "=", "2", " ", "c", "o", "n", "s", "t", "s", ")">>
N_combined == <<"c", "o", "m", "b", "i", "n", "e", "d", " ">>
N_consts_into == <<" ", "c", "o", "n", "s", "t", "s", " ", "i", "n", "t", "o", " ">>
N_collapsed == <<" ", "(", "c", "o", "l", "l", "a", "p", "s", "e", "d", ")">>
N_not_add_mul == <<"n", "o", "-", "o", "p", " ", "(", "n", "o", "t", " ", "a", "d", "d", "/", "m", "u", "l", ")">>
N_moved == <<"m", "o", "v", "e", "d", " ", "c", "o", "n", "s", "t", "s", " ", "l", "a", "s", "t">>

\* a pair (new_payload, note) returned by apply
Applied(payload, note) == [t |-> "pair", payload |-> payload, note |-> note]

\* FlattenAssociative.apply(payload)
FlattenApply(kind, payload) ==
    With(_flatten(kind, payload), LAMBDA after :
        IF IsError(after) THEN after
        ELSE Applied(after, IF PyEq(after, payload) THEN N_noop ELSE N_flattened \o kind))

\* sum(int(a["value"]) for a in consts) and the product of the loop
RECURSIVE SumOf(_)
SumOf(consts) ==
    IF consts = <<>> THEN 0 ELSE IntOf(DictGet(Head(consts), S_value)) + SumOf(Tail(consts))

RECURSIVE ProdOf(_)
ProdOf(consts) ==
    IF consts = <<>> THEN 1 ELSE IntOf(DictGet(Head(consts), S_value)) * ProdOf(Tail(consts))

\* CombineConstantsAdd.apply and CombineConstantsMul.apply on payload: kind
\* is the kind combined and total the sum or the product of the constants
CombineApply(kind, payload) ==
    IF ~(DictGet(payload, S_kind) = PyStr(kind) /\ DictGet(payload, S_args).t = "list")
    THEN Applied(payload, N_not \o kind \o <<")">>)
    ELSE With(_args(payload).xs, LAMBDA args :
        IF \E i \in 1..Len(args) : args[i].t # "map" THEN AttributeError
        ELSE IF Len(Consts(args)) < 2 THEN Applied(payload, N_need)
        ELSE With(IF kind = S_add THEN SumOf(Consts(args)) ELSE ProdOf(Consts(args)),
                  LAMBDA total :
            With(N_combined \o NatChars(Len(Consts(args))) \o N_consts_into \o IntChars(total),
                 LAMBDA note :
                IF NonConsts(args) = <<>> THEN Applied(_const(total), note \o N_collapsed)
                ELSE Applied(_rebuild(kind, Append(NonConsts(args), _const(total))), note))))

\* NormalizeOrdering.apply(payload)
NormalizeApply(payload) ==
    IF DictGet(payload, S_kind) \notin {PyStr(S_add), PyStr(S_mul)}
    THEN Applied(payload, N_not_add_mul)
    ELSE With(_args(payload), LAMBDA args :
        IF IsError(args) THEN args
        ELSE IF \E i \in 1..Len(args.xs) : args.xs[i].t # "map" THEN AttributeError
        ELSE With(_rebuild(DictGet(payload, S_kind).s, _sort_consts_last(args.xs)),
                  LAMBDA new_payload :
            Applied(new_payload, IF PyEq(new_payload, payload) THEN N_noop ELSE N_moved)))

\* transform.apply(payload) on a dict payload: the pair, or the error raised
apply(transform, payload) ==
    IF transform.cls = "FlattenAssociative" THEN FlattenApply(transform._kind, payload)
    ELSE IF transform.cls = "NormalizeOrdering" THEN NormalizeApply(payload)
    ELSE CombineApply(transform._kind, payload)

\* make_candidate_state(scope, payload, parent_id, transform_id, note) on a
\* dict payload
make_candidate_state(scope, payload, parent_id, tid, note) ==
    Candidate(scope, DictOf(payload),
              IF note = <<>> THEN Meta(parent_id, PyStr(tid))
              ELSE DictSet(Meta(parent_id, PyStr(tid)), S_note, PyStr(note)))

\* apply_transform_to_candidate(transform, scope, payload, parent_id)
apply_transform_to_candidate(transform, scope, payload, parent_id) ==
    With(apply(transform, payload), LAMBDA r :
        IF IsError(r) THEN r
        ELSE make_candidate_state(scope, r.payload, parent_id, transform_id(transform), r.note))

(***************************************************************************)
(* A2 lineage store (state.py) and orchestrator (orchestrator_stub.py)     *)
(***************************************************************************)
PRState(state_id, scope, payload, meta) ==
    [t |-> "state", state_id |-> state_id, scope |-> scope, payload |-> payload, meta |-> meta]

\* InMemoryLineageStore(): no states, no heads
EmptyLineageStore == [_states |-> <<>>, _heads |-> <<>>]

\* f"{idx:03d}"
Pad3(idx) ==
    IF idx < 10 THEN <<"0", "0">> \o NatChars(idx)
    ELSE IF idx < 100 THEN <<"0">> \o NatChars(idx)
    ELSE NatChars(idx)

S_state_ == <<"s", "t", "a", "t", "e", "_">>

\* store.get(state_id)
get(store, state_id) ==
    IF state_id \notin DOMAIN store._states THEN KeyError ELSE store._states[state_id]

\* store.head(namespace)
head(store, namespace) ==
    IF namespace \notin DOMAIN store._heads \/ store._heads[namespace] = <<>> THEN KeyError
    ELSE get(store, store._heads[namespace])

\* store.commit numbering the new state by the number of heads
commit_state_CountHeads(store, namespace, candidate) ==
    IF \E k \in {S_scope, S_payload, S_meta} : ~DictHas(candidate, k)
    THEN [store |-> store, res |-> KeyError]
    ELSE With(PRState(S_state_ \o Pad3(Cardinality(DOMAIN store._heads) + 1),
                      DictGet(candidate, S_scope), DictGet(candidate, S_payload),
                      DictGet(candidate, S_meta)), LAMBDA st :
        [store |-> [_states |-> DictPut(store._states, st.state_id, st),
                    _heads |-> DictPut(store._heads, namespace, st.state_id)],
         res |-> st])

\* store.commit(namespace, candidate) on a dict: the store after it and the
\* PRState returned, or the KeyError of a missing key
commit_state(store, namespace, candidate) ==
    IF \E k \in {S_scope, S_payload, S_meta} : ~DictHas(candidate, k)
    THEN [store |-> store, res |-> KeyError]
    ELSE With(PRState(S_state_ \o Pad3(Cardinality(DOMAIN store._states) + 1),
                      DictGet(candidate, S_scope), DictGet(candidate, S_payload),
                      DictGet(candidate, S_meta)), LAMBDA st :
        [store |-> [_states |-> DictPut(store._states, st.state_id, st),
                    _heads |-> DictPut(store._heads, namespace, st.state_id)],
         res |-> st])

\* store.bootstrap(namespace, scope, payload, meta)
bootstrap(store, namespace, scope, payload, meta) ==
    [store |-> commit_state(store, namespace, Candidate(scope, payload, meta)).store,
     res |-> PyNone]

SimpleHeuristicProposer == "SimpleHeuristicProposer"
CombineFirstProposer == "CombineFirstProposer"

\* proposer.propose_next_transform(state): the transform, or the
\* AttributeError of payload.get on a payload that is not a dict
propose_next_transform(proposer, state) ==
    IF state.payload.t # "map" THEN AttributeError
    ELSE IF proposer = SimpleHeuristicProposer
    THEN IF DictGet(state.payload, S_kind) = PyStr(S_add) THEN FlattenAssociative(S_add)
         ELSE IF DictGet(state.payload, S_kind) = PyStr(S_mul) THEN FlattenAssociative(S_mul)
         ELSE NormalizeOrdering
    ELSE IF DictGet(state.payload, S_kind) = PyStr(S_add) THEN CombineConstantsAdd
         ELSE IF DictGet(state.payload, S_kind) = PyStr(S_mul) THEN CombineConstantsMul
         ELSE NormalizeOrdering

\* ', '.join(reasons), in pieces
RECURSIVE JoinReasons(_)
JoinReasons(reasons) ==
    IF reasons = <<>> THEN <<>>
    ELSE IF Len(reasons) = 1 THEN reasons
    ELSE <<Head(reasons), ", ">> \o JoinReasons(Tail(reasons))

\* the tuple (committed, message, new_state) returned by step
StepResult(committed, msg, new_state) ==
    [t |-> "tuple", committed |-> committed, msg |-> msg, new_state |-> new_state]

\* steps 1 and 2 of step: the candidate made of the head of the namespace by
\* the transform the proposer names, or the error raised on the way
StepCandidate(store, ns, proposer) ==
    With(head(store, ns), LAMBDA h :
        IF IsError(h) THEN h
        ELSE With(propose_next_transform(proposer, h), LAMBDA transform :
            IF IsError(transform) THEN transform
            ELSE apply_transform_to_candidate(transform, h.scope, h.payload,
                                              PyStr(h.state_id))))

\* step 3 of step on a failed check: nothing is committed
StepReject(store, result) ==
    [store |-> store,
     res |-> StepResult(FALSE, <<"REJECT: invariants_failed: ">> \o JoinReasons(result.reasons),
                        PyNone)]

\* step 4 of step: the candidate is committed
StepCommit(store, ns, candidate) ==
    With(commit_state(store, ns, candidate), LAMBDA c :
        [store |-> c.store,
         res |-> StepResult(TRUE,
                            <<"COMMIT: ">> \o c.res.state_id \o <<" via ">>
                            \o DictGet(DictGet(candidate, S_meta), S_transform_id).s,
                            c.res)])

\* step with the candidate committed whatever the check says
step_CommitUnchecked(store, ns, proposer) ==
    With(StepCandidate(store, ns, proposer), LAMBDA candidate :
        IF IsError(candidate) THEN [store |-> store, res |-> candidate]
        ELSE StepCommit(store, ns, candidate))

\* A2Orchestrator(store, namespace, proposer).step(): the store after it and
\* the tuple returned, or the error raised
step(store, ns, proposer) ==
    With(StepCandidate(store, ns, proposer), LAMBDA candidate :
        IF IsError(candidate) THEN [store |-> store, res |-> candidate]
        ELSE With(check_candidate(candidate), LAMBDA result :
            IF IsError(result) THEN [store |-> store, res |-> result]
            ELSE IF ~result.ok THEN StepReject(store, result)
            ELSE StepCommit(store, ns, candidate)))

(***************************************************************************)
(* The calculator as a state machine: a store seeded by bootstrap and      *)
(* driven by orchestrator steps                                            *)
(***************************************************************************)
CalcMaxBootstraps == 2
CalcMaxStates == 4

LStore == [_states |-> _states, _heads |-> _heads]

CalcNamespaces == {<<"a">>, <<"b">>}

Proposers == {SimpleHeuristicProposer, CombineFirstProposer}

\* add(add(1, 2), 3), add(3, -1), mul(5000, 5000), add(add(2, -1), 3)
ENested == expr_add(<<expr_add(<<expr_const(1), expr_const(2)>>), expr_const(3)>>)
ECancel == expr_add(<<expr_const(3), expr_const(-1)>>)
EMulBig == expr_mul(<<expr_const(5000), expr_const(5000)>>)
ENestedNeg == expr_add(<<expr_add(<<expr_const(2), expr_const(-1)>>), expr_const(3)>>)

\* seeds: expressions that stay admissible, that become or cease to be
\* inadmissible under a transform, that make a transform raise, and a payload
\* that is no dict
SeedPayloads == {E2, EAdd, ENested, ECancel, EMulBig, ENestedNeg, EIntArg, PyList(<<>>)}

SeedScopes == {PyStr(ScopeInt), PyStr(ScopeOther)}

S_GENESIS == <<"G", "E", "N", "E", "S", "I", "S">>
S_bootstrap == <<"b", "o", "o", "t", "s", "t", "r", "a", "p">>

\* store.bootstrap(namespace, scope, payload, meta)
BootstrapOp ==
    /\ Cardinality(DOMAIN _states) < CalcMaxBootstraps
    /\ \E ns \in CalcNamespaces, scope \in SeedScopes, payload \in SeedPayloads :
         \E meta \in {Meta(PyStr(S_GENESIS), PyStr(S_bootstrap))} :
           \E r \in {bootstrap(LStore, ns, scope, payload, meta)} :
             /\ _states' = r.store._states
             /\ _heads' = r.store._heads
             /\ last' = Call("bootstrap", <<ns, scope, payload, meta>>, r.res)
    /\ UNCHANGED <<commits, children, now, cache, skeleton>>

\* A2Orchestrator(store, ns, proposer).step()
StepOp ==
    /\ Cardinality(DOMAIN _states) < CalcMaxStates
    /\ \E ns \in CalcNamespaces, proposer \in Proposers :
         \E r \in {step(LStore, ns, proposer)} :
           /\ _states' = r.store._states
           /\ _heads' = r.store._heads
           /\ last' = Call("step", <<ns, proposer>>, r.res)
    /\ UNCHANGED <<commits, children, now, cache, skeleton>>

\* store.head(namespace)
HeadOp ==
    /\ \E ns \in CalcNamespaces : last' = Call("head", <<ns>>, head(LStore, ns))
    /\ UNCHANGED <<commits, children, now, cache, skeleton, calculator>>

NextCalculator == BootstrapOp \/ StepOp \/ HeadOp

SpecCalculator == Init /\ [][NextCalculator]_vars

(***************************************************************************)
(* Properties of the checker                                               *)
(***************************************************************************)
\* meta.transform_id of candidate c contains "eval" or "solve"
HasSolverLikeId(c) ==
    /\ DictGet(c, S_meta).t = "map"
    /\ DictGet(DictGet(c, S_meta), S_transform_id).t = "str"
    /\ \/ Contains(DictGet(DictGet(c, S_meta), S_transform_id).s, S_eval)
       \/ Contains(DictGet(DictGet(c, S_meta), S_transform_id).s, S_solve)

\* the expression tree of e holds a constant with a negative int as value: e
\* is one, or a dict among the elements of its args list holds one
RECURSIVE HasNegativeConst(_)
HasNegativeConst(e) ==
    /\ e.t = "map"
    /\ \/ /\ DictGet(e, S_kind) = PyStr(S_const)
          /\ DictGet(e, S_value).t = "int"
          /\ DictGet(e, S_value).i < 0
       \/ /\ DictGet(e, S_kind) \in {PyStr(S_add), PyStr(S_mul)}
          /\ DictGet(e, S_args).t = "list"
          /\ \E i \in 1..Len(DictGet(e, S_args).xs) : HasNegativeConst(DictGet(e, S_args).xs[i])

\* the last call was check_candidate on a candidate with a solver-like
\* transform id or a negative constant
ForbiddenChecked ==
    /\ last.op = "check_candidate"
    /\ HasSolverLikeId(last.args[1]) \/ HasNegativeConst(DictGet(last.args[1], S_payload))

\* C30: check_candidate returns ok=False with at least one reason for every
\* candidate whose meta.transform_id contains "eval" or "solve" and for every
\* candidate whose payload holds a negative integer constant, whatever the
\* rest of the candidate is.
ForbiddenRejected ==
    ForbiddenChecked =>
        /\ ~IsError(last.res)
        /\ ~last.res.ok
        /\ Len(last.res.reasons) >= 1

\* check_candidate has raised AttributeError on add(const(-1), 2) proposed
\* under a solver-like transform id
ForbiddenRejected_Witness ==
    /\ last.op = "check_candidate"
    /\ HasSolverLikeId(last.args[1])
    /\ HasNegativeConst(DictGet(last.args[1], S_payload))
    /\ DictGet(last.args[1], S_payload) = EIntArg
    /\ last.res = AttributeError

\* what holds of the code: such a candidate is rejected with a reason, or the
\* walk over its payload raises
ForbiddenRejectedOrRaised ==
    ForbiddenChecked =>
        IF IsError(last.res) THEN IsError(_walk(DictGet(last.args[1], S_payload)))
        ELSE ~last.res.ok /\ Len(last.res.reasons) >= 1

(***************************************************************************)
(* Properties of the orchestrator                                          *)
(***************************************************************************)
\* the scope, payload and meta of a committed state, as the candidate it
\* was committed from
AsCandidate(st) == Candidate(st.scope, st.payload, st.meta)

\* check_candidate returns ok for candidate
ChecksOk(candidate) ==
    /\ ~IsError(check_candidate(candidate))
    /\ check_candidate(candidate).ok

\* the candidate a step in namespace ns under proposer is made and the
\* check of it fails
CheckFails(ns, proposer) ==
    /\ ~IsError(StepCandidate(LStore, ns, proposer))
    /\ ~IsError(check_candidate(StepCandidate(LStore, ns, proposer)))
    /\ ~check_candidate(StepCandidate(LStore, ns, proposer)).ok

\* a step changes the store only by adding one state that passes the check,
\* which it returns with True and makes the head of its namespace
StepCommitsChecked ==
    (last'.op = "step" /\ <<_states, _heads>>' # <<_states, _heads>>) =>
        /\ last'.res.t = "tuple"
        /\ last'.res.committed
        /\ DOMAIN _states' = DOMAIN _states \cup {last'.res.new_state.state_id}
        /\ last'.res.new_state.state_id \notin DOMAIN _states
        /\ \A id \in DOMAIN _states : _states'[id] = _states[id]
        /\ _states'[last'.res.new_state.state_id] = last'.res.new_state
        /\ ChecksOk(AsCandidate(last'.res.new_state))
        /\ AsCandidate(last'.res.new_state) = StepCandidate(LStore, last'.args[1], last'.args[2])
        /\ _heads' = DictPut(_heads, last'.args[1], last'.res.new_state.state_id)

\* a step whose check fails returns (False, message, None) and leaves the
\* states and the heads as they were
StepBlocked ==
    \A ns \in CalcNamespaces, proposer \in Proposers :
        (last'.op = "step" /\ last'.args = <<ns, proposer>> /\ CheckFails(ns, proposer)) =>
            /\ last'.res.t = "tuple"
            /\ ~last'.res.committed
            /\ last'.res.msg # <<>>
            /\ last'.res.new_state = PyNone
            /\ _states' = _states
            /\ _heads' = _heads
            /\ head([_states |-> _states', _heads |-> _heads'], ns) = head(LStore, ns)

\* C29: A2Orchestrator.step commits a candidate to the store only if
\* check_candidate returned ok for it; when the check fails, step returns
\* (False, message, None) and the store is unchanged: the head of the
\* namespace has the same state_id and payload as before and no state was
\* added.
StepCommitsOnlyChecked == [][StepCommitsChecked /\ StepBlocked]_vars

\* a step has been refused in a namespace that has a head, in a store where
\* an earlier step has committed its candidate
StepCommitsOnlyChecked_Witness ==
    /\ last.op = "step"
    /\ last.res.t = "tuple"
    /\ ~last.res.committed
    /\ last.res.new_state = PyNone
    /\ ~IsError(head(LStore, last.args[1]))
    /\ \E id \in DOMAIN _states :
         DictGet(_states[id].meta, S_transform_id) # PyStr(S_bootstrap)

(***************************************************************************)
(* The transforms as calls of apply on payloads drawn from a bounded set   *)
(* or returned by the call before                                          *)
(***************************************************************************)
\* add(add(2, add(3, 4)), 1), mul(2, mul(3, 4)), mul(add(2, 2), 3)
EDeep ==
    expr_add(<<expr_add(<<expr_const(2), expr_add(<<expr_const(3), expr_const(4)>>)>>),
               expr_const(1)>>)
EMulNested == expr_mul(<<expr_const(2), expr_mul(<<expr_const(3), expr_const(4)>>)>>)
EMulAdd == expr_mul(<<expr_add(<<expr_const(2), expr_const(2)>>), expr_const(3)>>)
\* add(3, 1, 2) and add(2, 3, 1); add(1, mul(2, 3)) and add(mul(2, 3), 1)
E312 == expr_add(<<expr_const(3), expr_const(1), expr_const(2)>>)
E231 == expr_add(<<expr_const(2), expr_const(3), expr_const(1)>>)
EConstFirst == expr_add(<<expr_const(1), expr_mul(<<expr_const(2), expr_const(3)>>)>>)
EConstLast == expr_add(<<expr_mul(<<expr_const(2), expr_const(3)>>), expr_const(1)>>)

TransformPayloads ==
    {E2, EAdd, ENested, EDeep, EMulNested, EMulAdd, E312, E231, EConstFirst, EConstLast,
     EIntArg}

Transforms ==
    {FlattenAssociative(S_add), FlattenAssociative(S_mul), NormalizeOrdering,
     CombineConstantsAdd, CombineConstantsMul}

\* the payload of the pair the last call of apply returned
LastApplied ==
    IF last.op = "apply" /\ ~IsError(last.res) THEN {last.res.payload} ELSE {}

\* transform.apply(payload)
ApplyOp ==
    /\ \E transform \in Transforms, payload \in TransformPayloads \cup LastApplied :
         last' = CallAfter("apply", <<transform, payload>>, apply(transform, payload))
    /\ UNCHANGED <<commits, children, now, cache, skeleton, calculator>>

NextTransforms == ApplyOp

SpecTransforms == Init /\ [][NextTransforms]_vars

(***************************************************************************)
(* Properties of the transforms                                            *)
(***************************************************************************)
\* the direct arguments of a well-formed add or mul node
ArgsOf(e) == DictGet(e, S_args).xs

\* the kind of node e, as a str
KindOf(e) == DictGet(e, S_kind)

\* the last call applied FlattenAssociative(kind) to a well-formed payload
\* whose root is of that kind
FlattenedOwnKind ==
    /\ last.op = "apply"
    /\ last.args[1].cls = "FlattenAssociative"
    /\ last.args[2].t = "map"
    /\ _is_well_formed(last.args[2])
    /\ KindOf(last.args[2]) = PyStr(last.args[1]._kind)

\* C31: after FlattenAssociative(kind) is applied to a well-formed payload
\* whose root is of that kind, the root of the result is still of that kind
\* and none of its direct arguments is a node of that kind, whatever the
\* nesting depth of the input.
FlattenLeavesNoNested ==
    FlattenedOwnKind =>
        /\ ~IsError(last.res)
        /\ KindOf(last.res.payload) = KindOf(last.args[2])
        /\ \A i \in 1..Len(ArgsOf(last.res.payload)) :
              KindOf(ArgsOf(last.res.payload)[i]) # KindOf(last.args[2])

\* add(add(2, add(3, 4)), 1) has been flattened to add(2, add(3, 4), 1)
FlattenLeavesNoNested_Witness ==
    /\ FlattenedOwnKind
    /\ last.args[2] = EDeep
    /\ last.res.payload =
         expr_add(<<expr_const(2), expr_add(<<expr_const(3), expr_const(4)>>), expr_const(1)>>)

\* what holds of the code: the root keeps its kind, the arguments of the
\* result are the arguments of the input with each argument of the root's
\* kind replaced by its own arguments, so that an argument of the result has
\* the root's kind only where the input nested that kind three deep
FlattenOneLevel ==
    FlattenedOwnKind =>
        /\ ~IsError(last.res)
        /\ KindOf(last.res.payload) = KindOf(last.args[2])
        /\ \A i \in 1..Len(ArgsOf(last.res.payload)) :
              KindOf(ArgsOf(last.res.payload)[i]) = KindOf(last.args[2]) =>
                 \E j \in 1..Len(ArgsOf(last.args[2])) :
                    /\ KindOf(ArgsOf(last.args[2])[j]) = KindOf(last.args[2])
                    /\ \E k \in 1..Len(ArgsOf(ArgsOf(last.args[2])[j])) :
                          ArgsOf(ArgsOf(last.args[2])[j])[k] = ArgsOf(last.res.payload)[i]

\* the number of elements of the sequence xs that equal x
RECURSIVE CountOf(_, _)
CountOf(xs, x) ==
    IF xs = <<>> THEN 0 ELSE (IF Head(xs) = x THEN 1 ELSE 0) + CountOf(Tail(xs), x)

\* xs and ys hold the same elements the same number of times
SameMultiset(xs, ys) ==
    /\ Len(xs) = Len(ys)
    /\ \A i \in 1..Len(xs) : CountOf(xs, xs[i]) = CountOf(ys, xs[i])

\* the last two calls applied NormalizeOrdering to two well-formed payloads
\* of one kind, add or mul, with the same multiset of arguments
NormalizedSameArgs ==
    /\ last.op = "apply"
    /\ last.prev.op = "apply"
    /\ last.args[1] = NormalizeOrdering
    /\ last.prev.args[1] = NormalizeOrdering
    /\ last.args[2].t = "map"
    /\ last.prev.args[2].t = "map"
    /\ _is_well_formed(last.args[2])
    /\ _is_well_formed(last.prev.args[2])
    /\ KindOf(last.args[2]) \in {PyStr(S_add), PyStr(S_mul)}
    /\ KindOf(last.args[2]) = KindOf(last.prev.args[2])
    /\ SameMultiset(ArgsOf(last.args[2]), ArgsOf(last.prev.args[2]))

\* C32: NormalizeOrdering maps any two add (or any two mul) payloads that
\* have the same multiset of arguments to the same result, regardless of the
\* order in which the arguments were listed.
NormalizeOrderInsensitive ==
    NormalizedSameArgs =>
        /\ ~IsError(last.res)
        /\ ~IsError(last.prev.res)
        /\ PyEq(last.res.payload, last.prev.res.payload)

\* NormalizeOrdering has left add(2, 3, 1) and add(3, 1, 2) as they were
NormalizeOrderInsensitive_Witness ==
    /\ NormalizedSameArgs
    /\ last.prev.args[2] = E312
    /\ last.args[2] = E231
    /\ last.prev.res.payload = E312
    /\ last.res.payload = E231

\* what holds of the code: the two results are equal when the constants
\* come in the same order in both payloads and the other arguments too
NormalizeKeepsGroupOrder ==
    (/\ NormalizedSameArgs
     /\ Consts(ArgsOf(last.args[2])) = Consts(ArgsOf(last.prev.args[2]))
     /\ NonConsts(ArgsOf(last.args[2])) = NonConsts(ArgsOf(last.prev.args[2])))
        => /\ ~IsError(last.res)
           /\ ~IsError(last.prev.res)
           /\ PyEq(last.res.payload, last.prev.res.payload)

\* NormalizeOrdering has given add(mul(2, 3), 1) for both add(1, mul(2, 3))
\* and add(mul(2, 3), 1)
NormalizeKeepsGroupOrder_Witness ==
    /\ NormalizedSameArgs
    /\ last.prev.args[2] = EConstFirst
    /\ last.args[2] = EConstLast
    /\ last.res.payload = EConstLast
    /\ last.prev.res.payload = EConstLast

\* the last call applied a transform to a payload whose root is add or mul
\* and returned a payload
AppliedToStructured ==
    /\ last.op = "apply"
    /\ last.args[2].t = "map"
    /\ KindOf(last.args[2]) \in {PyStr(S_add), PyStr(S_mul)}
    /\ ~IsError(last.res)

\* C33: applying any whitelisted transform (flatten:add, flatten:mul,
\* normalize:consts_last, combine_consts:add, combine_consts:mul), or any
\* sequence of them, to a structured payload whose root is add or mul never
\* yields a payload whose root is a const: each transform of a sequence gets
\* a root that is add or mul and gives one.
TransformsDoNotEvaluate ==
    AppliedToStructured => KindOf(last.res.payload) \in {PyStr(S_add), PyStr(S_mul)}

\* combine_consts:add has turned add(2, 2) into const(4)
TransformsDoNotEvaluate_Witness ==
    /\ AppliedToStructured
    /\ transform_id(last.args[1]) = T_combine_consts \o S_add
    /\ last.args[2] = EAdd
    /\ last.res.payload = expr_const(4)

\* what holds of the code: flatten and normalize keep the kind of the root,
\* and a combine transform gives a const root only where every argument of
\* the root is a const
OnlyCombineEvaluates ==
    AppliedToStructured =>
        \/ KindOf(last.res.payload) = KindOf(last.args[2])
        \/ /\ last.args[1].cls \in {"CombineConstantsAdd", "CombineConstantsMul"}
           /\ KindOf(last.args[2]) = PyStr(last.args[1]._kind)
           /\ NonConsts(ArgsOf(last.args[2])) = <<>>
           /\ KindOf(last.res.payload) = PyStr(S_const)

(***************************************************************************)
(* Properties of the lineage store                                         *)
(***************************************************************************)
\* the store after a step of the state machine
LStoreAfter == [_states |-> _states', _heads |-> _heads']

\* a change of the store is one commit in the namespace of the call: a state
\* under an id that was not in the store, every state of before still
\* retrievable and the same, the new state the head of that namespace and
\* the heads of the other namespaces as they were
CommitAddsState ==
    (<<_states, _heads>>' # <<_states, _heads>>) =>
        /\ last'.op \in {"bootstrap", "step"}
        /\ \E id \in DOMAIN _states' \ DOMAIN _states :
              /\ DOMAIN _states' = DOMAIN _states \cup {id}
              /\ _states'[id].state_id = id
              /\ head(LStoreAfter, last'.args[1]) = _states'[id]
        /\ \A id \in DOMAIN _states : get(LStoreAfter, id) = get(LStore, id)
        /\ \A ns \in CalcNamespaces \ {last'.args[1]} :
              head(LStoreAfter, ns) = head(LStore, ns)

\* every head names a state of the store, and every state is stored under
\* its own state_id
HeadsAreStates ==
    /\ \A ns \in DOMAIN _heads : _heads[ns] \in DOMAIN _states
    /\ \A id \in DOMAIN _states : _states[id].state_id = id

\* C34: InMemoryLineageStore never overwrites old states: every commit
\* assigns a state_id that is not already in the store, all states committed
\* before remain retrievable unchanged, and head(namespace) is the state most
\* recently committed to that namespace, also when several namespaces share
\* one store.
StoreNeverOverwrites == [](HeadsAreStates) /\ [][CommitAddsState]_vars

\* two namespaces share a store of four states, and the head of one of them
\* is not the state committed last
StoreNeverOverwrites_Witness ==
    /\ Cardinality(DOMAIN _states) = CalcMaxStates
    /\ DOMAIN _heads = CalcNamespaces
    /\ \E ns \in CalcNamespaces : _heads[ns] = S_state_ \o Pad3(CalcMaxStates)
    /\ \E ns \in CalcNamespaces : _heads[ns] # S_state_ \o Pad3(CalcMaxStates)
    /\ last.op = "step"

(***************************************************************************)
(* Properties of an accepted commit                                        *)
(***************************************************************************)
\* the call c is a commit or a consider that returned accepted=True
AcceptedCall(c) == c.op \in {"commit", "consider"} /\ ~IsError(c.res) /\ c.res.accepted

\* the proposal of the call c made in the current state: the one passed to
\* commit, or the one consider builds on the motif's latest version
ProposalOf(c) ==
    IF c.op = "commit" THEN c.args[1]
    ELSE RevisionProposal(c.args[1], LatestId(c.args[1]), c.args[2], Rationale)

\* the step appends new_version, and nothing else, to the store: proposal p
\* passes the validation, its base is the latest version of its motif, the
\* new version has that base as parent and is the latest of the motif after
AppendsOneVersion(p, new_version) ==
    /\ validate(PStore, p) = WriteBarrierResult(TRUE, "ok", PyNone)
    /\ p.base_version_id = LatestId(p.motif_id)
    /\ new_version.version_id \notin DOMAIN _versions
    /\ DOMAIN _versions' = DOMAIN _versions \cup {new_version.version_id}
    /\ \A v \in DOMAIN _versions : _versions'[v] = _versions[v]
    /\ _versions'[new_version.version_id] = new_version
    /\ DOMAIN _motif_versions' = DOMAIN _motif_versions
    /\ \A m \in DOMAIN _motif_versions :
          _motif_versions'[m] =
              IF m = p.motif_id THEN Append(_motif_versions[m], new_version.version_id)
              ELSE _motif_versions[m]
    /\ new_version.motif_id = p.motif_id
    /\ new_version.parent_version_id = PyStr(p.base_version_id)
    /\ latest_version([motif_versions |-> _motif_versions', versions |-> _versions'],
                      p.motif_id) = new_version

\* C35: WriteBarrier.commit (and CommitGate.consider) returns accepted=True
\* only if the proposal passed the structural validation and exactly one new
\* version was appended to the motif; that version's parent_version_id is the
\* proposal's base_version_id, which was the motif's latest version before
\* the call, the new version is the motif's latest afterwards, and its
\* payload equals the proposed payload.
AcceptedCommitStoresProposal ==
    [][AcceptedCall(last') =>
          /\ AppendsOneVersion(ProposalOf(last'), last'.res.new_version)
          /\ StructEq(last'.res.new_version.payload,
                      ProposalOf(last').proposed_payload)]_vars

\* commit has accepted a payload with the tuple (1,) under "x" and has stored
\* the list [1] there
AcceptedCommitStoresProposal_Witness ==
    /\ AcceptedCall(last)
    /\ last.op = "commit"
    /\ last.args[1].proposed_payload = MTuple
    /\ DictGet(last.args[1].proposed_payload, <<"x">>) = PyTuple(<<PyInt(1)>>)
    /\ DictGet(last.res.new_version.payload, <<"x">>) = PyList(<<PyInt(1)>>)
    /\ latest_version(PStore, last.args[1].motif_id) = last.res.new_version

\* what holds of the code: an accepted call appends exactly one version as
\* above, and its payload is the JSON round trip of the proposed payload
AcceptedCommitStoresCopy ==
    [][AcceptedCall(last') =>
          /\ AppendsOneVersion(ProposalOf(last'), last'.res.new_version)
          /\ last'.res.new_version.payload
                = _deepcopy_json(ProposalOf(last').proposed_payload)]_vars

(***************************************************************************)
(* Properties of base selection and of all_commits under clock ties        *)
(***************************************************************************)
\* the last call was a three_way_merge_analysis that returned a decision with
\* a base
AnalysedWithBase ==
    /\ last.op = "three_way_merge_analysis"
    /\ ~IsError(last.res)
    /\ last.res.base_commit # NoCommit

\* the members of lca_candidates(left, right) the base of the last analysis is
\* a proper ancestor of
BaseDescendants ==
    {c \in StoreLcaCandidates(Store, last.args[1], last.args[2]) :
        /\ c # last.res.base_commit
        /\ last.res.base_commit \in StoreAncestorsOf(Store, c)}

\* C36: with one writer whose clock readings never decrease from one append
\* to the next (two appends may read the same millisecond, ids are random),
\* the base chosen by three_way_merge_analysis is never a proper ancestor of
\* another member of lca_candidates(left, right).
BaseIsNoProperAncestor == AnalysedWithBase => BaseDescendants = {}

\* the base of an analysis is the parent of another candidate, appended in the
\* same millisecond under a smaller id
BaseIsNoProperAncestor_Witness ==
    /\ AnalysedWithBase
    /\ \E c \in BaseDescendants :
          /\ commits[c].parents = <<last.res.base_commit>>
          /\ commits[c].timestamp_ms = commits[last.res.base_commit].timestamp_ms
          /\ c < last.res.base_commit

\* what holds of the code: the base is a proper ancestor of another candidate
\* only where that candidate was appended in the same millisecond as the base
\* and drew a smaller id
BaseAncestorOnlyOnTie ==
    AnalysedWithBase =>
        \A c \in BaseDescendants :
            /\ commits[c].timestamp_ms = commits[last.res.base_commit].timestamp_ms
            /\ c < last.res.base_commit

\* the last call was all_commits
ListedAll == last.op = "all_commits"

\* the position of commit cid in the sequence the last all_commits returned
PositionOf(cid) == CHOOSE i \in 1..Len(last.res) : last.res[i].commit_id = cid

\* the (child, parent) pairs the last all_commits listed child first
ListedBeforeParent ==
    {<<c, p>> \in (DOMAIN commits) \X (DOMAIN commits) :
        /\ \E k \in 1..Len(commits[c].parents) : commits[c].parents[k] = p
        /\ PositionOf(c) < PositionOf(p)}

\* C37: with one writer whose clock readings never decrease from one append
\* to the next (equal milliseconds possible, ids random), the sequence
\* all_commits returns lists every commit after all of its parents.
AllCommitsParentsFirst == ListedAll => ListedBeforeParent = {}

\* all_commits has listed a commit before its parent: both were appended in
\* the same millisecond and the child drew the smaller id
AllCommitsParentsFirst_Witness ==
    /\ ListedAll
    /\ Len(last.res) = MaxCommits
    /\ \E pr \in ListedBeforeParent :
          /\ commits[pr[1]].timestamp_ms = commits[pr[2]].timestamp_ms
          /\ pr[1] < pr[2]

\* what holds of the code: all_commits returns every stored commit once, in
\* ascending (timestamp_ms, commit_id) order, and lists a commit before one of
\* its parents only where the two have the same timestamp_ms and the child has
\* the smaller id
AllCommitsParentsFirstButTies ==
    ListedAll =>
        /\ Len(last.res) = Cardinality(DOMAIN commits)
        /\ \A c \in DOMAIN commits : \E i \in 1..Len(last.res) : last.res[i] = commits[c]
        /\ \A i \in 1..(Len(last.res) - 1) :
              KeyLess(CommitKey(last.res[i]), CommitKey(last.res[i + 1]))
        /\ \A pr \in ListedBeforeParent :
              /\ commits[pr[1]].timestamp_ms = commits[pr[2]].timestamp_ms
              /\ pr[1] < pr[2]

(***************************************************************************)
(* Properties of the analysis under exchange of its heads                  *)
(***************************************************************************)
\* the last call was a three_way_merge_analysis of two stored heads
AnalysedStored ==
    /\ last.op = "three_way_merge_analysis"
    /\ StoreExists(Store, last.args[1])
    /\ StoreExists(Store, last.args[2])

\* accept_left and accept_right exchanged, accept_either unchanged
Exchanged(proposal) ==
    IF proposal = "accept_left" THEN "accept_right"
    ELSE IF proposal = "accept_right" THEN "accept_left"
    ELSE proposal

\* the decision d2 is the decision d1 with the heads exchanged
Mirrors(d1, d2) ==
    IF IsError(d1) \/ IsError(d2) THEN d1 = d2
    ELSE /\ d2.base_commit = d1.base_commit
         /\ d2.left_commit = d1.right_commit
         /\ d2.right_commit = d1.left_commit
         /\ {d2.conflicts[i].subject_id : i \in 1..Len(d2.conflicts)}
              = {d1.conflicts[i].subject_id : i \in 1..Len(d1.conflicts)}
         /\ Len(d2.conflicts) = Len(d1.conflicts)
         /\ [i \in 1..Len(d2.actions) |->
                <<d2.actions[i].subject_id, d2.actions[i].proposal>>]
              = [i \in 1..Len(d1.actions) |->
                    <<d1.actions[i].subject_id, Exchanged(d1.actions[i].proposal)>>]

\* C38: for any two stored heads a and b, three_way_merge_analysis(a, b) and
\* three_way_merge_analysis(b, a) choose the same base, report conflicts for
\* the same subjects, and report actions for the same subjects in the same
\* order with accept_left and accept_right exchanged and accept_either
\* unchanged (and one raises exactly when the other does), whatever the order
\* in which the candidate set is iterated.
AnalysisSymmetric ==
    AnalysedStored =>
        \A order \in Orders(BaseCandidates(Store, last.args[2], last.args[1])) :
            Mirrors(last.res,
                    three_way_merge_analysis(Store, last.args[2], last.args[1], order))

\* two different heads have been analysed: the decision has a base, an
\* accept_left, an accept_right and an accept_either action or a conflict
AnalysisSymmetric_Witness ==
    /\ AnalysedStored
    /\ last.args[1] # last.args[2]
    /\ ~IsError(last.res)
    /\ last.res.base_commit # NoCommit
    /\ \E i \in 1..Len(last.res.actions) : last.res.actions[i].proposal = "accept_left"

\* two different heads have been analysed and the decision reports a conflict
AnalysisSymmetric_WitnessConflict ==
    /\ AnalysedStored
    /\ last.args[1] # last.args[2]
    /\ ~IsError(last.res)
    /\ Len(last.res.conflicts) > 0

(***************************************************************************)
(* Properties of the view of a commit created by commit_merge              *)
(***************************************************************************)
\* the ids of the commits commit_merge created: append is called with op
\* "add" everywhere else
MergeCreated == {c \in DOMAIN commits : commits[c].op \in {"merge", "replace"}}

\* the entries of a decision that name commit cid under the field side
EntriesNaming(d, side, cid) ==
    {e \in Range(d.actions) \cup Range(d.conflicts) : side \in DOMAIN e /\ e[side] = cid}

\* the entries of a decision that have the field side
EntriesWith(d, side) ==
    {e \in Range(d.actions) \cup Range(d.conflicts) : side \in DOMAIN e}

\* the view of every commit commit_merge created is that commit under its own
\* subject
MergeViewIsOwnSubject ==
    \A c \in MergeCreated : ViewOf(c) = [sid \in {commits[c].subject_id} |-> commits[c]]

\* an analysis with a commit created by commit_merge as a head names, on that
\* side, that commit under its own subject only
MergeHeadClassifiedAlone ==
    (/\ last.op = "three_way_merge_analysis"
     /\ ~IsError(last.res))
    => /\ last.args[1] \in MergeCreated =>
            \A e \in EntriesWith(last.res, "left_commit") :
                /\ e.left_commit = last.args[1]
                /\ e.subject_id = commits[last.args[1]].subject_id
       /\ last.args[2] \in MergeCreated =>
            \A e \in EntriesWith(last.res, "right_commit") :
                /\ e.right_commit = last.args[2]
                /\ e.subject_id = commits[last.args[2]].subject_id

\* C39: for any commit c created by commit_merge, the view the merge analysis
\* builds of head c contains exactly one subject, c's own, mapped to c: the
\* subjects of both merged branches and the other commits of the same
\* commit_merge call are not in it, and a later three_way_merge_analysis with
\* c as a head classifies only c's subject on that side.
MergeCommitViewIsItself == MergeViewIsOwnSubject /\ MergeHeadClassifiedAlone

\* commit_merge has created two commits of different subjects over a branch,
\* and the subject of the branch and of the first commit is not that of the
\* second
MergeCommitViewIsItself_Witness ==
    /\ last.op = "commit_merge"
    /\ ~IsError(last.res)
    /\ Len(last.res.xs) = 2
    /\ last.res.xs[1].subject_id # last.res.xs[2].subject_id
    /\ last.res.xs[2].commit_id \in MergeCreated
    /\ commits[last.args[1]].subject_id # last.res.xs[2].subject_id

\* a commit created by commit_merge has been analysed as the left head
\* against another head, and the decision names it
MergeCommitViewIsItself_WitnessHead ==
    /\ last.op = "three_way_merge_analysis"
    /\ ~IsError(last.res)
    /\ last.args[1] \in MergeCreated
    /\ last.args[2] # last.args[1]
    /\ EntriesNaming(last.res, "left_commit", last.args[1]) # {}

(***************************************************************************)
(* The graph walks step by step: one action per iteration of the while     *)
(* loops of ancestors_of and _commit_chain.  While a call runs, last holds *)
(* its frame: the call, the statement it is at (pc) and its locals.  The   *)
(* store is the one of "graph": up to four commits, diamonds, several      *)
(* commits over the same parents.                                          *)
(***************************************************************************)
\* a call is running
Running == "pc" \in DOMAIN last

\* the locals of a call that has just begun
NoLocals ==
    [stack |-> <<>>, visited |-> {}, anc_a |-> {}, base |-> NoCommit, cur |-> NoCommit,
     chain |-> <<>>, left_chain |-> <<>>, right_chain |-> <<>>, left_latest |-> <<>>,
     right_latest |-> <<>>, base_latest |-> <<>>, sids |-> <<>>, actions |-> <<>>,
     conflicts |-> <<>>]

Frame(op, args, pc, loc) == [op |-> op, args |-> args, pc |-> pc, loc |-> loc]

\* visited = set(); stack = [commit_id]
EnterAncestors(loc, commit_id) == [loc EXCEPT !.stack = <<commit_id>>, !.visited = {}]

\* chain = []; cur = head
EnterChain(loc, hd) == [loc EXCEPT !.cur = hd, !.chain = <<>>]

\* the views of the two heads and of the base, and the subjects to go through,
\* sorted; actions = []; conflicts = []
EnterSubjects(loc, right_chain, base_latest) ==
    LET left_latest == _index_latest_by_subject(loc.left_chain)
        right_latest == _index_latest_by_subject(right_chain)
    IN  [loc EXCEPT !.right_chain = right_chain,
                    !.left_latest = left_latest,
                    !.right_latest = right_latest,
                    !.base_latest = base_latest,
                    !.sids = SortedStrs(DOMAIN left_latest \cup DOMAIN right_latest
                                          \cup DOMAIN base_latest),
                    !.actions = <<>>,
                    !.conflicts = <<>>]

\* A faulty iteration: it reads the top of the stack and leaves it there.
AncestorsIteration_NoPop(st, stack, visited) ==
    VisitParents(st.commits[stack[Len(stack)]].parents, stack, visited)

\* one iteration of while stack: cur = stack.pop(); for p in parents: ...
AncestorsIteration(st, stack, visited) ==
    VisitParents(st.commits[stack[Len(stack)]].parents, SubSeq(stack, 1, Len(stack) - 1),
                 visited)

\* the parents come in the order in which they were appended
Ascending(parents) == \A i, j \in 1..Len(parents) : i < j => parents[i] < parents[j]

\* the store is written between calls only
WalkAppendOp == ~Running /\ AppendOp("graph") /\ Ascending(last'.args[1])

CallAncestorsOf ==
    /\ ~Running
    /\ \E commit_id \in DOMAIN commits :
         last' = Frame("ancestors_of", <<commit_id>>, "walk",
                       EnterAncestors(NoLocals, commit_id))
    /\ UNCHANGED <<commits, children, now, cache, skeleton, calculator>>

\* anc_a = self.ancestors_of(a) | {a} comes first
CallLcaCandidates ==
    /\ ~Running
    /\ \E a \in DOMAIN commits, b \in DOMAIN commits :
         last' = Frame("lca_candidates", <<a, b>>, "walk_a", EnterAncestors(NoLocals, a))
    /\ UNCHANGED <<commits, children, now, cache, skeleton, calculator>>

CallCommitChain ==
    /\ ~Running
    /\ \E hd \in DOMAIN commits :
         last' = Frame("_commit_chain", <<hd>>, "chain", EnterChain(NoLocals, hd))
    /\ UNCHANGED <<commits, children, now, cache, skeleton, calculator>>

\* the heads are looked up, then _pick_base calls lca_candidates
CallAnalysis ==
    /\ ~Running
    /\ \E left_head \in DOMAIN commits, right_head \in DOMAIN commits :
         last' = Frame("three_way_merge_analysis", <<left_head, right_head>>, "walk_a",
                       EnterAncestors(NoLocals, left_head))
    /\ UNCHANGED <<commits, children, now, cache, skeleton, calculator>>

\* an iteration of the while loop of ancestors_of
AncestorsStep ==
    /\ Running
    /\ last.pc \in {"walk", "walk_a", "walk_b"}
    /\ Len(last.loc.stack) > 0
    /\ \E r \in {AncestorsIteration(Store, last.loc.stack, last.loc.visited)} :
         last' = [last EXCEPT !.loc.stack = r.stack, !.loc.visited = r.visited]
    /\ UNCHANGED <<commits, children, now, cache, skeleton, calculator>>

\* the stack is empty: ancestors_of returns visited, to its caller if it has
\* one; lca_candidates goes on to ancestors_of(b) or returns the intersection; _pick_base picks among the candidates, iterated
\* in some order, and the analysis goes on to the chain of the left head
AncestorsReturn ==
    /\ Running
    /\ last.pc \in {"walk", "walk_a", "walk_b"}
    /\ Len(last.loc.stack) = 0
    /\ IF last.pc = "walk"
       THEN last' = Call(last.op, last.args, last.loc.visited)
       ELSE IF last.pc = "walk_a"
       THEN last' = [last EXCEPT
                       !.pc = "walk_b",
                       !.loc = EnterAncestors(
                                 [last.loc EXCEPT !.anc_a =
                                     last.loc.visited \cup {last.args[1]}],
                                 last.args[2])]
       ELSE \E cands \in {last.loc.anc_a \cap (last.loc.visited \cup {last.args[2]})} :
              IF last.op = "lca_candidates"
              THEN last' = Call(last.op, last.args, cands)
              ELSE \E order \in Orders(cands) :
                     last' = [last EXCEPT
                                !.pc = "chain_left",
                                !.loc = EnterChain(
                                          [last.loc EXCEPT
                                              !.base = IF Len(order) = 0 THEN NoCommit
                                                       ELSE PickBaseLoop(Store, order, 1,
                                                                         NoCommit, <<0, 0>>)],
                                          last.args[1])]
    /\ UNCHANGED <<commits, children, now, cache, skeleton, calculator>>

\* an iteration of the while loop of _commit_chain: store.get raises on an
\* unknown id; after the break the chain is reversed and returned, to the
\* analysis if it is the caller, which goes on to the next chain and after
\* the last to its loop over the subjects
ChainStep ==
    /\ Running
    /\ last.pc \in {"chain", "chain_left", "chain_right", "chain_base"}
    /\ \E c \in {StoreGet(Store, last.loc.cur)} :
         IF IsError(c) THEN last' = Call(last.op, last.args, c)
         ELSE IF Len(c.parents) = 1
         THEN last' = [last EXCEPT !.loc.cur = c.parents[1],
                                   !.loc.chain = Append(last.loc.chain, c)]
         ELSE \E chain \in {Reverse(Append(last.loc.chain, c))} :
                IF last.pc = "chain"
                THEN last' = Call(last.op, last.args, chain)
                ELSE IF last.pc = "chain_left"
                THEN last' = [last EXCEPT
                                !.pc = "chain_right",
                                !.loc = EnterChain([last.loc EXCEPT !.left_chain = chain],
                                                   last.args[2])]
                ELSE IF last.pc = "chain_right" /\ last.loc.base # NoCommit
                THEN last' = [last EXCEPT
                                !.pc = "chain_base",
                                !.loc = EnterChain([last.loc EXCEPT !.right_chain = chain],
                                                   last.loc.base)]
                ELSE IF last.pc = "chain_right"
                THEN last' = [last EXCEPT
                                !.pc = "subjects",
                                !.loc = EnterSubjects(last.loc, chain, <<>>)]
                ELSE last' = [last EXCEPT
                                !.pc = "subjects",
                                !.loc = EnterSubjects(last.loc, last.loc.right_chain,
                                                      _index_latest_by_subject(chain))]
    /\ UNCHANGED <<commits, children, now, cache, skeleton, calculator>>

\* an iteration of the loop of the analysis over sorted(all_subjects): the
\* subject's entry is appended to actions or to conflicts, or the assert
\* fails; after the last subject the decision is returned
SubjectsStep ==
    /\ Running
    /\ last.pc = "subjects"
    /\ IF Len(last.loc.sids) = 0
       THEN last' = Call(last.op, last.args,
                         [t |-> "decision", base_commit |-> last.loc.base,
                          left_commit |-> last.args[1], right_commit |-> last.args[2],
                          actions |-> last.loc.actions, conflicts |-> last.loc.conflicts])
       ELSE \E pass \in {ClassifySubject(Head(last.loc.sids), last.loc.left_latest,
                                         last.loc.right_latest, last.loc.base_latest)} :
              IF pass.to = "raise" THEN last' = Call(last.op, last.args, pass.entry)
              ELSE IF pass.to = "actions"
              THEN last' = [last EXCEPT !.loc.sids = Tail(@),
                                        !.loc.actions = Append(@, pass.entry)]
              ELSE last' = [last EXCEPT !.loc.sids = Tail(@),
                                        !.loc.conflicts = Append(@, pass.entry)]
    /\ UNCHANGED <<commits, children, now, cache, skeleton, calculator>>

\* the statement the running call is at
WalkStep == AncestorsStep \/ AncestorsReturn \/ ChainStep \/ SubjectsStep

NextWalk ==
    \/ WalkAppendOp
    \/ CallAncestorsOf
    \/ CallLcaCandidates
    \/ CallCommitChain
    \/ CallAnalysis
    \/ AncestorsStep
    \/ AncestorsReturn
    \/ ChainStep
    \/ SubjectsStep

SpecWalk == Init /\ [][NextWalk]_vars

\* the interpreter goes on executing the running call
SpecWalkFair == SpecWalk /\ WF_vars(WalkStep)

\* a call has returned
Returned(op) == ~Running /\ last.op = op

\* what the calls return is what the loops compute when run to their end
WalksCompute ==
    IF Returned("ancestors_of") THEN last.res = StoreAncestorsOf(Store, last.args[1])
    ELSE IF Returned("lca_candidates")
    THEN last.res = StoreLcaCandidates(Store, last.args[1], last.args[2])
    ELSE IF Returned("_commit_chain") THEN last.res = _commit_chain(Store, last.args[1])
    ELSE IF Returned("three_way_merge_analysis")
    THEN \E order \in Orders(BaseCandidates(Store, last.args[1], last.args[2])) :
            last.res = three_way_merge_analysis(Store, last.args[1], last.args[2], order)
    ELSE IF Running /\ last.pc = "chain_right"
    THEN last.loc.left_chain = _commit_chain(Store, last.args[1])
    ELSE IF Running /\ last.pc = "chain_base"
    THEN /\ last.loc.left_chain = _commit_chain(Store, last.args[1])
         /\ last.loc.right_chain = _commit_chain(Store, last.args[2])
    ELSE TRUE

\* a walk never holds more than the store has: every commit is pushed at most
\* once, and a chain names every commit at most once
WalksBounded ==
    IF Running
    THEN /\ Len(last.loc.stack) <= Cardinality(DOMAIN commits)
         /\ \A i, j \in 1..Len(last.loc.stack) :
               last.loc.stack[i] = last.loc.stack[j] => i = j
         /\ Len(last.loc.chain) <= Cardinality(DOMAIN commits)
         /\ \A i, j \in 1..Len(last.loc.chain) :
               last.loc.chain[i] = last.loc.chain[j] => i = j
         /\ last.loc.visited \subseteq DOMAIN commits
    ELSE TRUE

\* the running call is where the loops take it: a state predicate
WalksSound == IF WalksCompute THEN WalksBounded ELSE FALSE

\* C40: on every reachable store, ancestors_of, lca_candidates, the chain
\* walk of the view construction and three_way_merge_analysis, once called,
\* return (a value or an error) after finitely many iterations, on graphs
\* with diamonds and with several commits over the same parents too.
WalksTerminate == []WalksSound /\ (Running ~> ~Running)

\* three_way_merge_analysis has returned a decision on the two merges of the
\* same two parents of a diamond of four commits
WalksTerminate_Witness ==
    /\ Returned("three_way_merge_analysis")
    /\ ~IsError(last.res)
    /\ last.args = <<3, 4>>
    /\ Cardinality(DOMAIN commits) = 4
    /\ commits[2].parents = <<1>>
    /\ commits[3].parents = <<1, 2>>
    /\ commits[4].parents = <<1, 2>>
    /\ last.res.base_commit = 2

\* ancestors_of has returned the three ancestors of the top of a diamond
WalksTerminate_WitnessDiamond ==
    /\ Returned("ancestors_of")
    /\ last.args = <<4>>
    /\ Cardinality(DOMAIN commits) = 4
    /\ commits[2].parents = <<1>>
    /\ commits[3].parents = <<1>>
    /\ commits[4].parents = <<2, 3>>
    /\ last.res = {1, 2, 3}

====
